---------------------------- MODULE Spec2Model ----------------------------
(***************************************************************************)
(* The robot-arm motion recorder: the application context (recording       *)
(* state, current trajectory, undo/redo histories, playback position),     *)
(* the capture loop (useRecording), the playback loop (usePlayback), the   *)
(* drag controller (useRobotControl), target detection, the timeline and   *)
(* the smoothing panel.                                                    *)
(*                                                                         *)
(* Units.  Angles are integers in units of 0.0001 rad, canvas coordinates  *)
(* integers in units of 0.01 px, times integers in ms.                     *)
(*                                                                         *)
(* Scheduling.  React commits a state update and runs the passive effects  *)
(* of that commit later, except for a discrete event (a click, a mouse     *)
(* down, a slider input), whose render and effects are flushed to          *)
(* quiescence before the handler's task ends.  An animation-frame callback *)
(* can therefore run between a commit made by a continuous event or by a   *)
(* tick and the effects of that commit.  `seen' is the snapshot of the     *)
(* last commit whose effects ran (which is what the effect-synchronised    *)
(* refs hold); the effects of the current commit are pending while the     *)
(* state differs from it.                                                  *)
(***************************************************************************)
EXTENDS Integers, Sequences, FiniteSets, TLC

\* ------------------------------------------------------------------ bounds
MaxFrames == 3          \* frames a trajectory may hold
MaxTime == 1            \* largest elapsed time (ms) a loop observes
MaxHistory == 1         \* snapshots the undo history may hold
MaxCaptured == 3        \* frames the capture loop appends in one session

\* --------------------------------------------------------------- constants
AngleEpsilon == 1       \* 0.0001 rad: the capture loop's change threshold
AngleThreshold == 10    \* 0.001 rad: the drag controller's update threshold
MouseThreshold == 200   \* 2 px: the drag controller's mouse threshold
HitRadius == 2000       \* 20 px: the end-effector hit box of a mouse down
TargetRadius == 2000    \* 20 px: TARGET_CONFIG.radius
UpperArmLength == 150   \* px
LowerArmLength == 130   \* px
Pi == 31416
Epoch == 100            \* the reading of performance.now() (see Advance)

Null == [null |-> TRUE]

SHOULDER_POSITION == [x |-> 45000, y |-> 30000]
TargetPosition == [x |-> 72000, y |-> 30000]
InitialConfig == [shoulderAngle |-> -13963, elbowAngle |-> 27925]

Abs(n) == IF n < 0 THEN -n ELSE n
Min(a, b) == IF a < b THEN a ELSE b
Max(a, b) == IF a > b THEN a ELSE b

\* ---------------------------------------------------------------- geometry
\* Math.sin on [-pi/2, pi/2], by its Taylor polynomial of degree 7 in
\* fixed point; the result is scaled by 10000.
SinQuadrant(x) ==
  LET x2 == (x * x) \div 10000
      t3 == 10000 - x2 \div 42
      t2 == 10000 - (x2 * t3) \div 200000
      t1 == 10000 - (x2 * t2) \div 60000
  IN  IF x >= 0 THEN (x * t1) \div 10000 ELSE -(((-x) * t1) \div 10000)

Sin(a) ==
  LET w == ((a + Pi) % (2 * Pi)) - Pi
  IN  IF w > Pi \div 2 THEN SinQuadrant(Pi - w)
      ELSE IF w < -(Pi \div 2) THEN SinQuadrant(-Pi - w)
      ELSE SinQuadrant(w)

Cos(a) == Sin(a + Pi \div 2)

\* A signed product scaled down by 100, rounded toward zero.
Scale(c, length) ==
  IF c >= 0 THEN (c * length) \div 100 ELSE -(((-c) * length) \div 100)

polarToCartesian(origin, angle, length) ==
  [x |-> origin.x + Scale(Cos(angle), length),
   y |-> origin.y + Scale(Sin(angle), length)]

forwardKinematics(config) ==
  LET elbowPosition ==
        polarToCartesian(SHOULDER_POSITION, config.shoulderAngle, UpperArmLength)
  IN  [elbowPosition |-> elbowPosition,
       endEffectorPosition |->
         polarToCartesian(elbowPosition,
                          config.shoulderAngle + config.elbowAngle,
                          LowerArmLength)]

\* distance(p1, p2) <= r, compared on the squares.
WithinDistance(p1, p2, r) ==
  LET dx == p2.x - p1.x
      dy == p2.y - p1.y
  IN  /\ Abs(dx) <= r
      /\ Abs(dy) <= r
      /\ dx * dx + dy * dy <= r * r

isInTargetZone(endEffectorPos, targetPos, targetRadius) ==
  WithinDistance(endEffectorPos, targetPos, targetRadius)

ArmInTargetZone(config) ==
  isInTargetZone(forwardKinematics(config).endEffectorPosition,
                 TargetPosition, TargetRadius)


\* -------------------------------------------------------------- trajectory
EmptyTrajectory == [frames |-> <<>>, completed |-> FALSE, totalTimeMs |-> 0]

\* The number of prompts of a session.
PromptCount == 2

\* AppContext.initializeSession: the session before any motion is
\* completed.  Only the length of the prompt order is read.
NewSession ==
  [promptOrder |-> [index \in 1..PromptCount |-> index],
   completedMotions |-> <<>>,
   currentPromptIndex |-> 0]

MotionFrame(timestamp, config) ==
  LET fk == forwardKinematics(config)
  IN  [timestamp |-> timestamp,
       shoulderAngle |-> config.shoulderAngle,
       elbowAngle |-> config.elbowAngle,
       endEffectorPosition |-> fk.endEffectorPosition,
       elbowPosition |-> fk.elbowPosition]

FrameCount(trajectory) ==
  IF trajectory = Null THEN 0 ELSE Len(trajectory.frames)

IsSorted(frames) ==
  \A i \in 1..(Len(frames) - 1) : frames[i].timestamp <= frames[i + 1].timestamp

\* ------------------------------------------------------ inverse kinematics
\* The canvas points the mouse visits: the arm's initial end effector,
\* mid-canvas, and the centre of the target.
PointS == [x |-> 49862, y |-> 28030]
PointA == [x |-> 60000, y |-> 20000]
PointT == [x |-> 72000, y |-> 30000]
MousePoints == {PointS, PointA, PointT}
DirectPoints == {PointS, PointT}

\* Two more points a drag visits after the arm is grabbed at PointS: one
\* beyond the arm's reach, in whose direction the arm stretches, and one
\* 250 px from the shoulder.
PointFar == [x |-> 85000, y |-> 0]
PointB == [x |-> 60000, y |-> 10000]
DragPoints == {PointFar, PointB}

\* inverseKinematics(SHOULDER_POSITION, target, 150, 130, elbowUp) at the
\* points of MousePoints and DragPoints (the angles only; PointFar is
\* clamped to the reach limit, where both solutions are the stretched arm).
inverseKinematics(target, elbowUp) ==
  LET up == CASE target = PointS -> [shoulderAngle |-> -13963, elbowAngle |-> 27925]
              [] target = PointA -> [shoulderAngle |-> -13771, elbowAngle |-> 17487]
              [] target = PointT -> [shoulderAngle |-> -2491, elbowAngle |-> 5375]
              [] target = PointFar -> [shoulderAngle |-> -6435, elbowAngle |-> 0]
              [] target = PointB -> [shoulderAngle |-> -13596, elbowAngle |-> 9369]
      down == CASE target = PointS -> [shoulderAngle |-> 6264, elbowAngle |-> -27925]
                [] target = PointA -> [shoulderAngle |-> 2011, elbowAngle |-> -17487]
                [] target = PointT -> [shoulderAngle |-> 2491, elbowAngle |-> -5375]
                [] target = PointFar -> [shoulderAngle |-> -6435, elbowAngle |-> 0]
                [] target = PointB -> [shoulderAngle |-> -4950, elbowAngle |-> -9369]
  IN  IF elbowUp THEN up ELSE down

\* --------------------------------------------------------------- smoothing
Strengths == {0, 100}

\* strengthToSigma, in units of 0.001.
strengthToSigma(strength) == 500 + strength * 45

\* Math.exp(-(d * d) / (2 * sigma * sigma)), scaled by 10000, at the sigmas
\* of Strengths.
GaussianWeight(sigma, d) ==
  CASE sigma = 500 -> (CASE d = 0 -> 10000 [] d = 1 -> 1353 [] d = 2 -> 3
                         [] OTHER -> 0)
    [] sigma = 5000 -> (CASE d = 0 -> 10000 [] d = 1 -> 9802 [] d = 2 -> 9231
                          [] d = 3 -> 8353 [] d = 4 -> 7261 [] d = 5 -> 6065
                          [] OTHER -> 0)

\* n / d rounded to the nearest integer (d > 0).
RoundDiv(n, d) ==
  IF n >= 0 THEN (n + d \div 2) \div d ELSE -(((-n) + d \div 2) \div d)

\* The loop of gaussianSmoothTrajectory over i = startIdx..endIdx: the
\* weighted sums of both angles and the sum of the weights.
RECURSIVE GaussianSums(_, _, _, _, _)
GaussianSums(frames, index, sigma, i, endIdx) ==
  IF i > endIdx
  THEN [sumShoulderAngle |-> 0, sumElbowAngle |-> 0, weightSum |-> 0]
  ELSE LET rest == GaussianSums(frames, index, sigma, i + 1, endIdx)
           weight == GaussianWeight(sigma, Abs(i - index))
       IN  [sumShoulderAngle |->
              rest.sumShoulderAngle + frames[i].shoulderAngle * weight,
            sumElbowAngle |-> rest.sumElbowAngle + frames[i].elbowAngle * weight,
            weightSum |-> rest.weightSum + weight]

\* A Gaussian smoothing that keeps each frame's captured positions.
gaussianSmoothTrajectoryKeepsPositions(trajectory, sigma) ==
  IF Len(trajectory.frames) < 3 THEN trajectory
  ELSE
    LET frames == trajectory.frames
        halfWindow == (((sigma * 3 + 999) \div 1000) * 2 + 1) \div 2
        Smoothed(index) ==
          LET sums == GaussianSums(frames, index, sigma,
                                   Max(1, index - halfWindow),
                                   Min(Len(frames), index + halfWindow))
          IN  [frames[index] EXCEPT
                 !.shoulderAngle = RoundDiv(sums.sumShoulderAngle, sums.weightSum),
                 !.elbowAngle = RoundDiv(sums.sumElbowAngle, sums.weightSum)]
    IN  [trajectory EXCEPT !.frames = [index \in 1..Len(frames) |-> Smoothed(index)]]

gaussianSmoothTrajectory(trajectory, sigma) ==
  IF Len(trajectory.frames) < 3 THEN trajectory
  ELSE
    LET frames == trajectory.frames
        windowSize == ((sigma * 3 + 999) \div 1000) * 2 + 1
        halfWindow == windowSize \div 2
        Smoothed(index) ==
          LET startIdx == Max(1, index - halfWindow)
              endIdx == Min(Len(frames), index + halfWindow)
              sums == GaussianSums(frames, index, sigma, startIdx, endIdx)
              config ==
                [shoulderAngle |-> RoundDiv(sums.sumShoulderAngle, sums.weightSum),
                 elbowAngle |-> RoundDiv(sums.sumElbowAngle, sums.weightSum)]
          IN  MotionFrame(frames[index].timestamp, config)
    IN  [trajectory EXCEPT !.frames = [index \in 1..Len(frames) |-> Smoothed(index)]]


\* ------------------------------------------------------------------- state
VARIABLES
  recordingState,         \* AppContext: 'idle' | 'recording' | 'playing' | 'paused'
  currentTrajectory,      \* AppContext: a trajectory or Null
  undoHistory,            \* AppContext
  redoHistory,            \* AppContext
  playbackFrame,          \* AppContext: 0-based frame index
  robotConfig,            \* AppContext: the joint angles
  mousePosition,          \* useMouseTracking
  isFollowing,            \* useMouseTracking
  hasStartedMoving,       \* useRobotControl
  lastMousePositionRef,   \* useRobotControl
  cachedIKRef,            \* useRobotControl
  startTimeRef,           \* useRecording
  lastRecordedConfigRef,  \* useRecording
  recordFrameRequest,     \* useRecording: a recordFrame callback is scheduled
  playbackStartTimeRef,   \* usePlayback
  startFrameTimeRef,      \* usePlayback
  startingFrameRef,       \* usePlayback
  lastFrameIndexRef,      \* usePlayback
  animateRequest,         \* usePlayback: an animate callback is scheduled
  originalTrajectory,     \* Controls
  smoothingStrength,      \* Controls
  showSmoothingSlider,    \* Controls
  userSession,            \* AppContext: the prompts and the completed motions
  appState,               \* AppContext: 'recording' | 'completed'
  framesCaptured,         \* the number of frames appended so far (bounds the run)
  seen                    \* the commit whose passive effects ran last

vars ==
  <<recordingState, currentTrajectory, undoHistory, redoHistory, playbackFrame,
    robotConfig, mousePosition, isFollowing, hasStartedMoving,
    lastMousePositionRef, cachedIKRef, startTimeRef, lastRecordedConfigRef,
    recordFrameRequest, playbackStartTimeRef, startFrameTimeRef,
    startingFrameRef, lastFrameIndexRef, animateRequest, originalTrajectory,
    smoothingStrength, showSmoothingSlider, userSession, appState,
    framesCaptured, seen>>

\* performance.now().  Only differences of clock readings are observable, so
\* the reading is held fixed and the passage of time moves the live time
\* origins into the past (Advance).
Now == Epoch

\* The state and the refs as one record, on which the handlers and the
\* effects operate.
World ==
  [recordingState |-> recordingState,
   currentTrajectory |-> currentTrajectory,
   undoHistory |-> undoHistory,
   redoHistory |-> redoHistory,
   playbackFrame |-> playbackFrame,
   robotConfig |-> robotConfig,
   mousePosition |-> mousePosition,
   isFollowing |-> isFollowing,
   hasStartedMoving |-> hasStartedMoving,
   lastMousePositionRef |-> lastMousePositionRef,
   cachedIKRef |-> cachedIKRef,
   startTimeRef |-> startTimeRef,
   lastRecordedConfigRef |-> lastRecordedConfigRef,
   recordFrameRequest |-> recordFrameRequest,
   playbackStartTimeRef |-> playbackStartTimeRef,
   startFrameTimeRef |-> startFrameTimeRef,
   startingFrameRef |-> startingFrameRef,
   lastFrameIndexRef |-> lastFrameIndexRef,
   animateRequest |-> animateRequest,
   originalTrajectory |-> originalTrajectory,
   smoothingStrength |-> smoothingStrength,
   showSmoothingSlider |-> showSmoothingSlider,
   userSession |-> userSession,
   appState |-> appState,
   framesCaptured |-> framesCaptured]

\* What a render hands to its effects: the values the dependency arrays
\* compare and the closures read.
Snapshot(w) ==
  [recordingState |-> w.recordingState,
   currentTrajectory |-> w.currentTrajectory,
   playbackFrame |-> w.playbackFrame,
   robotConfig |-> w.robotConfig,
   mousePosition |-> w.mousePosition,
   isFollowing |-> w.isFollowing,
   hasStartedMoving |-> w.hasStartedMoving,
   userSession |-> w.userSession,
   appState |-> w.appState]

Becomes(w) ==
  /\ recordingState' = w.recordingState
  /\ currentTrajectory' = w.currentTrajectory
  /\ undoHistory' = w.undoHistory
  /\ redoHistory' = w.redoHistory
  /\ playbackFrame' = w.playbackFrame
  /\ robotConfig' = w.robotConfig
  /\ mousePosition' = w.mousePosition
  /\ isFollowing' = w.isFollowing
  /\ hasStartedMoving' = w.hasStartedMoving
  /\ lastMousePositionRef' = w.lastMousePositionRef
  /\ cachedIKRef' = w.cachedIKRef
  /\ startTimeRef' = w.startTimeRef
  /\ lastRecordedConfigRef' = w.lastRecordedConfigRef
  /\ recordFrameRequest' = w.recordFrameRequest
  /\ playbackStartTimeRef' = w.playbackStartTimeRef
  /\ startFrameTimeRef' = w.startFrameTimeRef
  /\ startingFrameRef' = w.startingFrameRef
  /\ lastFrameIndexRef' = w.lastFrameIndexRef
  /\ animateRequest' = w.animateRequest
  /\ originalTrajectory' = w.originalTrajectory
  /\ smoothingStrength' = w.smoothingStrength
  /\ showSmoothingSlider' = w.showSmoothingSlider
  /\ userSession' = w.userSession
  /\ appState' = w.appState
  /\ framesCaptured' = w.framesCaptured

\* The application after its first render and effects: the session is
\* initialised, AppContent has created the empty trajectory.
Init ==
  /\ recordingState = "idle"
  /\ currentTrajectory = EmptyTrajectory
  /\ undoHistory = <<>>
  /\ redoHistory = <<>>
  /\ playbackFrame = 0
  /\ robotConfig = InitialConfig
  /\ mousePosition = Null
  /\ isFollowing = FALSE
  /\ hasStartedMoving = FALSE
  /\ lastMousePositionRef = Null
  /\ cachedIKRef = Null
  /\ startTimeRef = 0
  /\ lastRecordedConfigRef = Null
  /\ recordFrameRequest = FALSE
  /\ playbackStartTimeRef = 0
  /\ startFrameTimeRef = 0
  /\ startingFrameRef = 0
  /\ lastFrameIndexRef = -1
  /\ animateRequest = FALSE
  /\ originalTrajectory = Null
  /\ smoothingStrength = 0
  /\ showSmoothingSlider = FALSE
  /\ userSession = NewSession
  /\ appState = "recording"
  /\ framesCaptured = 0
  /\ seen = Snapshot(World)


\* ----------------------------------------------------------------- effects
\* Each passive effect is an operator on the world w being built; r is the
\* render the effect closes over and s the render of the previous run, with
\* which the dependency array is compared.  The refs that an effect keeps
\* in sync with a prop (robotConfigRef, and useRecording's
\* currentTrajectoryRef) hold r's value once that effect ran, which is
\* before every effect below that reads them.

\* useRobotControl: reset when the trajectory changes to an empty one.
ResetOnEmptyTrajectory(w, r, s) ==
  IF /\ r.currentTrajectory # s.currentTrajectory
     /\ r.currentTrajectory # Null
     /\ Len(r.currentTrajectory.frames) = 0
  THEN [w EXCEPT !.hasStartedMoving = FALSE]
  ELSE w

\* A controller without the reset of hasStartedMoving when recording
\* stops.
ResetOnIdleMissing(w, r, s) == w

\* useRobotControl: reset hasStartedMoving when recording stops.
ResetOnIdle(w, r, s) ==
  IF r.recordingState # s.recordingState /\ r.recordingState = "idle"
  THEN [w EXCEPT !.hasStartedMoving = FALSE]
  ELSE w

startRecording(w) ==
  [w EXCEPT !.recordingState = "recording", !.redoHistory = <<>>]

stopRecording(w) == [w EXCEPT !.recordingState = "idle"]

stopPlayback(w) == [w EXCEPT !.recordingState = "paused"]

AngleDistance(ik, config) ==
  Abs(ik.shoulderAngle - config.shoulderAngle)
    + Abs(ik.elbowAngle - config.elbowAngle)

\* useRobotControl: direct manipulation of the arm while dragging.
DirectManipulation(w, r, s) ==
  IF /\ r.mousePosition = s.mousePosition
     /\ r.isFollowing = s.isFollowing
     /\ r.recordingState = s.recordingState
     /\ r.hasStartedMoving = s.hasStartedMoving
  THEN w
  ELSE IF r.mousePosition = Null \/ ~r.isFollowing
  THEN [w EXCEPT !.lastMousePositionRef = Null, !.cachedIKRef = Null]
  ELSE IF ArmInTargetZone(r.robotConfig)
  THEN LET w1 == [w EXCEPT !.isFollowing = FALSE]
       IN  IF r.recordingState = "recording" THEN stopRecording(w1) ELSE w1
  ELSE
    LET lastMouse == w.lastMousePositionRef
        mouseMovedSignificantly ==
          \/ lastMouse = Null
          \/ Abs(r.mousePosition.x - lastMouse.x) > MouseThreshold
          \/ Abs(r.mousePosition.y - lastMouse.y) > MouseThreshold
        ikElbowUp == inverseKinematics(r.mousePosition, TRUE)
        ikElbowDown == inverseKinematics(r.mousePosition, FALSE)
        distUp == AngleDistance(ikElbowUp, r.robotConfig)
        distDown == AngleDistance(ikElbowDown, r.robotConfig)
        ik == IF mouseMovedSignificantly
              THEN (IF distUp < distDown THEN ikElbowUp ELSE ikElbowDown)
              ELSE w.cachedIKRef
        w1 == IF mouseMovedSignificantly
              THEN [w EXCEPT !.cachedIKRef = ik,
                             !.lastMousePositionRef = r.mousePosition]
              ELSE w
        anglesChangedSignificantly ==
          \/ Abs(ik.shoulderAngle - r.robotConfig.shoulderAngle) > AngleThreshold
          \/ Abs(ik.elbowAngle - r.robotConfig.elbowAngle) > AngleThreshold
        w2 == IF anglesChangedSignificantly
              THEN [w1 EXCEPT !.robotConfig = ik]
              ELSE w1
    IN  IF ~mouseMovedSignificantly /\ w.cachedIKRef = Null THEN w
        ELSE IF ~r.hasStartedMoving /\ r.recordingState = "idle"
        THEN startRecording([w2 EXCEPT !.hasStartedMoving = TRUE])
        ELSE w2

\* A capture loop that is left scheduled when recording stops.
RecordingLoopLeaks(w, r, s) ==
  IF r.recordingState = s.recordingState THEN w
  ELSE IF r.recordingState = "recording"
  THEN [w EXCEPT !.startTimeRef = IF @ = 0 THEN Now ELSE @,
                 !.recordFrameRequest = TRUE]
  ELSE [w EXCEPT !.startTimeRef = 0, !.lastRecordedConfigRef = Null]

\* A capture loop whose time origin ignores the frames already recorded.
RecordingLoopFromZero(w, r, s) ==
  IF r.recordingState = s.recordingState THEN w
  ELSE IF r.recordingState = "recording"
  THEN [w EXCEPT !.startTimeRef = IF @ = 0 THEN Now ELSE @,
                 !.recordFrameRequest = TRUE]
  ELSE [w EXCEPT !.recordFrameRequest = FALSE,
                 !.startTimeRef = 0,
                 !.lastRecordedConfigRef = Null]

\* A capture-loop effect that stops the loop without resetting the time
\* origin and the last-recorded angles.
RecordingLoopKeepsRefs(w, r, s) ==
  IF r.recordingState = s.recordingState THEN w
  ELSE IF r.recordingState = "recording"
  THEN LET trajectory == r.currentTrajectory
           baseTimestamp ==
             IF trajectory # Null /\ Len(trajectory.frames) > 0
             THEN trajectory.frames[Len(trajectory.frames)].timestamp
             ELSE 0
       IN  [w EXCEPT !.startTimeRef =
                        IF @ = 0 THEN Now - baseTimestamp ELSE @,
                     !.recordFrameRequest = TRUE]
  ELSE [w EXCEPT !.recordFrameRequest = FALSE]

\* useRecording: the effect that starts and stops the capture loop.  Its
\* cleanup, which runs first, cancels the scheduled callback.
RecordingLoop(w, r, s) ==
  IF r.recordingState = s.recordingState THEN w
  ELSE IF r.recordingState = "recording"
  THEN LET trajectory == r.currentTrajectory
           baseTimestamp ==
             IF trajectory # Null /\ Len(trajectory.frames) > 0
             THEN trajectory.frames[Len(trajectory.frames)].timestamp
             ELSE 0
       IN  [w EXCEPT !.startTimeRef =
                        IF @ = 0 THEN Now - baseTimestamp ELSE @,
                     !.recordFrameRequest = TRUE]
  ELSE [w EXCEPT !.recordFrameRequest = FALSE,
                 !.startTimeRef = 0,
                 !.lastRecordedConfigRef = Null]

\* A playback loop whose callback is left scheduled when playing ends.
PlaybackLoopLeaks(w, r, s) ==
  IF /\ r.recordingState = "playing"
     /\ r.recordingState # s.recordingState
     /\ FrameCount(r.currentTrajectory) > 0
  THEN LET frames == r.currentTrajectory.frames
           startFrame == Min(w.startingFrameRef, Len(frames) - 1)
       IN  [w EXCEPT !.startFrameTimeRef = frames[startFrame + 1].timestamp,
                     !.playbackStartTimeRef = Now,
                     !.lastFrameIndexRef = startFrame,
                     !.animateRequest = TRUE]
  ELSE w

\* usePlayback: the effect that starts and stops the playback loop.  When
\* no callback is left scheduled the two time refs are dead (the effect
\* writes them before it schedules the next callback), and they are
\* zeroed here so that Advance has no stale origin to move.
PlaybackLoop(w, r, s) ==
  IF /\ r.recordingState = s.recordingState
     /\ r.currentTrajectory = s.currentTrajectory
  THEN w
  ELSE IF /\ r.recordingState = "playing"
          /\ r.currentTrajectory # Null
          /\ Len(r.currentTrajectory.frames) > 0
  THEN LET frames == r.currentTrajectory.frames
           startFrame == Min(w.startingFrameRef, Len(frames) - 1)
       IN  [w EXCEPT !.startFrameTimeRef = frames[startFrame + 1].timestamp,
                     !.playbackStartTimeRef = Now,
                     !.lastFrameIndexRef = startFrame,
                     !.animateRequest = TRUE]
  ELSE [w EXCEPT !.animateRequest = FALSE,
                 !.playbackStartTimeRef = 0,
                 !.startFrameTimeRef = 0]

\* useTargetDetection without the zone test.
useTargetDetectionAnywhere(w, r, s) ==
  IF /\ r.robotConfig = s.robotConfig
     /\ r.currentTrajectory = s.currentTrajectory
  THEN w
  ELSE IF /\ r.currentTrajectory # Null
          /\ ~r.currentTrajectory.completed
  THEN [w EXCEPT !.currentTrajectory =
                    [r.currentTrajectory EXCEPT !.completed = TRUE]]
  ELSE w

useTargetDetection(w, r, s) ==
  IF /\ r.robotConfig = s.robotConfig
     /\ r.currentTrajectory = s.currentTrajectory
  THEN w
  ELSE IF /\ r.currentTrajectory # Null
          /\ ArmInTargetZone(r.robotConfig)
          /\ ~r.currentTrajectory.completed
  THEN [w EXCEPT !.currentTrajectory =
                    [r.currentTrajectory EXCEPT !.completed = TRUE]]
  ELSE w

\* A scrub effect that also writes the frame's angles during playback.
ScrubEffectAlways(w, r, s) ==
  IF /\ r.playbackFrame = s.playbackFrame
     /\ r.recordingState = s.recordingState
  THEN w
  ELSE IF /\ FrameCount(r.currentTrajectory) > 0
          /\ r.playbackFrame < FrameCount(r.currentTrajectory)
  THEN LET frame == r.currentTrajectory.frames[r.playbackFrame + 1]
       IN  [w EXCEPT !.robotConfig =
                        [shoulderAngle |-> frame.shoulderAngle,
                         elbowAngle |-> frame.elbowAngle]]
  ELSE w

\* Timeline: show the frame under the scrubber when not playing.
ScrubEffect(w, r, s) ==
  IF /\ r.playbackFrame = s.playbackFrame
     /\ r.recordingState = s.recordingState
  THEN w
  ELSE IF /\ FrameCount(r.currentTrajectory) > 0
          /\ r.recordingState # "playing"
          /\ r.playbackFrame < FrameCount(r.currentTrajectory)
  THEN LET frame == r.currentTrajectory.frames[r.playbackFrame + 1]
       IN  [w EXCEPT !.robotConfig =
                        [shoulderAngle |-> frame.shoulderAngle,
                         elbowAngle |-> frame.elbowAngle]]
  ELSE w

\* Timeline: reset to the last frame when the frame count changes.
ResetToLastFrame(w, r, s) ==
  LET totalFrames == FrameCount(r.currentTrajectory)
  IN  IF totalFrames # FrameCount(s.currentTrajectory) /\ totalFrames > 0
      THEN [w EXCEPT !.playbackFrame = totalFrames - 1]
      ELSE w

\* AppContent: initialise a new motion when there is no trajectory.
InitializeMotion(w, r, s) ==
  IF /\ \/ r.currentTrajectory # s.currentTrajectory
        \/ r.userSession # s.userSession
        \/ r.appState # s.appState
     /\ r.appState = "recording"
     /\ r.currentTrajectory = Null
  THEN [w EXCEPT !.robotConfig = InitialConfig,
                 !.currentTrajectory = EmptyTrajectory]
  ELSE w

\* One run of the passive effects of render r, in the order React runs
\* them: RobotArm's hooks in call order, Timeline's, then AppContent's.
\* AppContent renders them only while the application is recording.
RunEffects(w, r, s) ==
  LET w1 == ResetOnEmptyTrajectory(w, r, s)
      w2 == ResetOnIdle(w1, r, s)
      w3 == DirectManipulation(w2, r, s)
      w4 == RecordingLoop(w3, r, s)
      w5 == PlaybackLoop(w4, r, s)
      w6 == useTargetDetection(w5, r, s)
      w7 == ScrubEffect(w6, r, s)
      w8 == ResetToLastFrame(w7, r, s)
  IN  IF r.appState = "recording"
      THEN InitializeMotion(w8, r, s)
      ELSE \* the end screen replaces RobotArm and Controls: their
           \* cleanups cancel the scheduled callbacks
           [w EXCEPT !.recordFrameRequest = FALSE, !.animateRequest = FALSE]

\* A render that does not capture the starting frame.
RenderKeepsStart(wasPlaying, w) == w

\* A render: usePlayback captures the starting frame on the transition to
\* playing (wasPlayingRef holds whether the previous render was playing).
Render(wasPlaying, w) ==
  IF w.recordingState = "playing" /\ ~wasPlaying
  THEN [w EXCEPT !.startingFrameRef = w.playbackFrame]
  ELSE w


\* -------------------------------------------------------------- scheduling
\* The effects of the last commit have not run yet.
Pending == seen # Snapshot(World)

Quiescent == ~Pending

\* A discrete event (click, mouse down, slider input): the handler's
\* updates h are rendered and the effects of that render run before the
\* event's task ends.  Updates made by those effects are rendered after
\* it, and their effects are deferred.
Discrete(h) ==
  LET rendered == Render(recordingState = "playing", h)
      r == Snapshot(rendered)
      w == RunEffects(rendered, r, seen)
  IN  /\ Becomes(Render(r.recordingState = "playing", w))
      /\ seen' = r

\* A continuous event or an animation-frame callback: its updates h are
\* rendered, and the effects of that render are deferred.  Effects still
\* pending from the previous commit run before the render, and their
\* updates are batched after the callback's.
Deferred(h) ==
  IF Pending
  THEN LET r == Snapshot(World)
       IN  /\ Becomes(Render(recordingState = "playing", RunEffects(h, r, seen)))
           /\ seen' = r
  ELSE /\ Becomes(Render(recordingState = "playing", h))
       /\ UNCHANGED seen

\* The deferred effects of the last commit run.
FlushEffects ==
  /\ Pending
  /\ Deferred(World)

\* ------------------------------------------------------------ capture loop
\* A change test that lets every tick record.
hasChangedAlways(lastConfig, config) == TRUE

\* useRecording.recordFrame: has the configuration changed since the last
\* recorded frame?
hasChanged(lastConfig, config) ==
  \/ lastConfig = Null
  \/ Abs(lastConfig.shoulderAngle - config.shoulderAngle) > AngleEpsilon
  \/ Abs(lastConfig.elbowAngle - config.elbowAngle) > AngleEpsilon

\* useRecording.recordFrame, one animation-frame callback.  It reads the
\* refs, which hold the props of the last render whose effects ran.
CaptureTick ==
  /\ recordFrameRequest
  /\ LET config == seen.robotConfig
         trajectory == seen.currentTrajectory
         frame == MotionFrame(Now - startTimeRef, config)
     IN  IF trajectory # Null /\ hasChanged(lastRecordedConfigRef, config)
         THEN /\ Len(trajectory.frames) < MaxFrames
              /\ framesCaptured < MaxCaptured
              /\ Deferred([World EXCEPT
                    !.currentTrajectory =
                       [trajectory EXCEPT !.frames = Append(@, frame)],
                    !.lastRecordedConfigRef = config,
                    !.framesCaptured = @ + 1])
         ELSE UNCHANGED vars

\* ----------------------------------------------------------- playback loop
\* A binary search that returns where the time would be inserted.
RECURSIVE BinarySearchInsertion(_, _, _, _, _)
BinarySearchInsertion(frames, elapsedTime, left, right, frameIndex) ==
  IF left > right THEN left
  ELSE LET mid == (left + right) \div 2
       IN  IF frames[mid + 1].timestamp <= elapsedTime
           THEN BinarySearchInsertion(frames, elapsedTime, mid + 1, right, mid)
           ELSE BinarySearchInsertion(frames, elapsedTime, left, mid - 1, frameIndex)

\* A search that takes only the frames stamped before the elapsed time.
RECURSIVE BinarySearchStrict(_, _, _, _, _)
BinarySearchStrict(frames, elapsedTime, left, right, frameIndex) ==
  IF left > right THEN frameIndex
  ELSE LET mid == (left + right) \div 2
       IN  IF frames[mid + 1].timestamp < elapsedTime
           THEN BinarySearchStrict(frames, elapsedTime, mid + 1, right, mid)
           ELSE BinarySearchStrict(frames, elapsedTime, left, mid - 1, frameIndex)

\* The binary search of usePlayback.animate: left, right and frameIndex are
\* 0-based as in the source.
RECURSIVE BinarySearch(_, _, _, _, _)
BinarySearch(frames, elapsedTime, left, right, frameIndex) ==
  IF left > right THEN frameIndex
  ELSE LET mid == (left + right) \div 2
       IN  IF frames[mid + 1].timestamp <= elapsedTime
           THEN BinarySearch(frames, elapsedTime, mid + 1, right, mid)
           ELSE BinarySearch(frames, elapsedTime, left, mid - 1, frameIndex)

PlaybackElapsed == (Now - playbackStartTimeRef) + startFrameTimeRef

\* A tick that writes the located frame whether or not the index changed.
PlaybackTickAlwaysWrites ==
  /\ animateRequest
  /\ LET trajectory == currentTrajectory
     IN  IF trajectory = Null \/ FrameCount(trajectory) = 0
         THEN Deferred([World EXCEPT !.animateRequest = FALSE,
                                     !.playbackStartTimeRef = 0,
                                     !.startFrameTimeRef = 0])
         ELSE
           LET frames == trajectory.frames
               frameIndex ==
                 BinarySearch(frames, PlaybackElapsed, 0, Len(frames) - 1, 0)
               targetFrame == frames[frameIndex + 1]
               w1 == [World EXCEPT
                        !.lastFrameIndexRef = frameIndex,
                        !.playbackFrame = frameIndex,
                        !.robotConfig =
                           [shoulderAngle |-> targetFrame.shoulderAngle,
                            elbowAngle |-> targetFrame.elbowAngle]]
           IN  IF frameIndex >= Len(frames) - 1
               THEN Deferred(stopPlayback([w1 EXCEPT
                                             !.animateRequest = FALSE,
                                             !.playbackStartTimeRef = 0,
                                             !.startFrameTimeRef = 0]))
               ELSE Deferred(w1)

\* usePlayback.animate, one animation-frame callback.  currentTrajectoryRef
\* is written during render, so it holds the committed trajectory.
PlaybackTick ==
  /\ animateRequest
  /\ LET trajectory == currentTrajectory
     IN  IF trajectory = Null \/ FrameCount(trajectory) = 0
         THEN Deferred([World EXCEPT !.animateRequest = FALSE,
                                     !.playbackStartTimeRef = 0,
                                     !.startFrameTimeRef = 0])
         ELSE
           LET frames == trajectory.frames
               frameIndex ==
                 BinarySearch(frames, PlaybackElapsed, 0, Len(frames) - 1, 0)
               targetFrame == frames[frameIndex + 1]
               w1 == IF frameIndex # lastFrameIndexRef
                     THEN [World EXCEPT
                             !.lastFrameIndexRef = frameIndex,
                             !.playbackFrame = frameIndex,
                             !.robotConfig =
                                [shoulderAngle |-> targetFrame.shoulderAngle,
                                 elbowAngle |-> targetFrame.elbowAngle]]
                     ELSE World
           IN  IF frameIndex >= Len(frames) - 1
               THEN Deferred(stopPlayback([w1 EXCEPT
                                             !.animateRequest = FALSE,
                                             !.playbackStartTimeRef = 0,
                                             !.startFrameTimeRef = 0]))
               ELSE Deferred(w1)

\* The largest timestamp of the trajectory being played.
PlaybackHorizon ==
  LET n == FrameCount(currentTrajectory)
  IN  IF n = 0 THEN 0
      ELSE Max(0, currentTrajectory.frames[n].timestamp)

\* One millisecond passes: every live time origin is one further back.  A
\* recording is observed for MaxTime, a playback until the time of its
\* trajectory's last frame.
Advance ==
  /\ recordFrameRequest \/ animateRequest
  /\ recordFrameRequest => Now - startTimeRef < MaxTime
  /\ animateRequest => PlaybackElapsed < PlaybackHorizon
  /\ startTimeRef' = IF startTimeRef # 0 THEN startTimeRef - 1 ELSE 0
  /\ playbackStartTimeRef' =
       IF animateRequest THEN playbackStartTimeRef - 1 ELSE playbackStartTimeRef
  /\ UNCHANGED <<recordingState, currentTrajectory, undoHistory, redoHistory,
                 playbackFrame, robotConfig, mousePosition, isFollowing,
                 hasStartedMoving, lastMousePositionRef, cachedIKRef,
                 lastRecordedConfigRef, recordFrameRequest, startFrameTimeRef,
                 startingFrameRef, lastFrameIndexRef, animateRequest,
                 originalTrajectory, smoothingStrength, showSmoothingSlider,
                 userSession, appState, framesCaptured, seen>>


\* --------------------------------------------------------------- the mouse
\* The user's events are taken when no effect is pending.  A mouse move
\* matters to the program only while the arm follows the mouse.

\* useMouseTracking.handleMouseMove (a continuous event).
MouseMove(position) ==
  /\ Quiescent
  /\ isFollowing
  /\ position # mousePosition
  /\ Deferred([World EXCEPT !.mousePosition = position])

\* useMouseTracking.handleMouseLeave (a continuous event).
MouseLeave ==
  /\ Quiescent
  /\ mousePosition # Null
  /\ Deferred([World EXCEPT !.mousePosition = Null])

\* useMouseTracking.handleMouseDown: grab the end effector.  The user grabs
\* the arm to draw a motion, which the program allows when it is idle, and
\* not while the smoothing panel is open.
MouseDown(clickPos) ==
  /\ Quiescent
  /\ recordingState = "idle"
  /\ ~showSmoothingSlider
  /\ WithinDistance(clickPos,
                    forwardKinematics(seen.robotConfig).endEffectorPosition,
                    HitRadius)
  /\ Discrete([World EXCEPT !.mousePosition = clickPos, !.isFollowing = TRUE])

\* ------------------------------------------------------------ the controls
\* The controls and the timeline lie outside the arm's canvas: the pointer
\* has left the canvas when one of them is used.
OnControls == Quiescent /\ mousePosition = Null

hasFrames == FrameCount(currentTrajectory) > 0

canPlay == hasFrames /\ recordingState # "recording"

startPlayback(w) == [w EXCEPT !.recordingState = "playing"]

\* Controls.handlePlayback when not playing.
Play ==
  /\ OnControls
  /\ canPlay
  /\ recordingState # "playing"
  /\ Discrete(startPlayback(World))

\* Controls.handlePlayback when playing.
Pause ==
  /\ OnControls
  /\ canPlay
  /\ recordingState = "playing"
  /\ Discrete(stopPlayback(World))

resetRobotPosition(w) == [w EXCEPT !.robotConfig = InitialConfig]

resetCurrentMotion(w) ==
  IF w.currentTrajectory # Null
  THEN resetRobotPosition(
         [w EXCEPT !.undoHistory = Append(@, w.currentTrajectory),
                   !.currentTrajectory = Null,
                   !.recordingState = "idle"])
  ELSE w

\* Controls.handleReset, confirmed.
Reset ==
  /\ OnControls
  /\ currentTrajectory # Null /\ hasFrames /\ recordingState # "playing"
  /\ Len(undoHistory) < MaxHistory
  /\ Discrete(resetCurrentMotion(World))

\* undo saving the current trajectory before it checks the stack.
undoSavesFirst(w) ==
  IF Len(w.undoHistory) = 0
  THEN [w EXCEPT !.redoHistory =
                    IF w.currentTrajectory # Null
                    THEN Append(@, w.currentTrajectory) ELSE @]
  ELSE LET previous == w.undoHistory[Len(w.undoHistory)]
           newHistory == SubSeq(w.undoHistory, 1, Len(w.undoHistory) - 1)
       IN  [w EXCEPT !.redoHistory =
                        IF w.currentTrajectory # Null
                        THEN Append(@, w.currentTrajectory) ELSE @,
                     !.currentTrajectory = previous,
                     !.undoHistory = newHistory]

undo(w) ==
  IF Len(w.undoHistory) = 0 THEN w
  ELSE LET previous == w.undoHistory[Len(w.undoHistory)]
           newHistory == SubSeq(w.undoHistory, 1, Len(w.undoHistory) - 1)
       IN  [w EXCEPT !.redoHistory =
                        IF w.currentTrajectory # Null
                        THEN Append(@, w.currentTrajectory) ELSE @,
                     !.currentTrajectory = previous,
                     !.undoHistory = newHistory]

redo(w) ==
  IF Len(w.redoHistory) = 0 THEN w
  ELSE LET next == w.redoHistory[Len(w.redoHistory)]
           newHistory == SubSeq(w.redoHistory, 1, Len(w.redoHistory) - 1)
       IN  [w EXCEPT !.undoHistory =
                        IF w.currentTrajectory # Null
                        THEN Append(@, w.currentTrajectory) ELSE @,
                     !.currentTrajectory = next,
                     !.redoHistory = newHistory]

canUndo == Len(undoHistory) > 0

canRedo == Len(redoHistory) > 0

\* The undo button.
Undo ==
  /\ OnControls
  /\ canUndo /\ recordingState # "playing"
  /\ Len(redoHistory) < MaxHistory
  /\ Discrete(undo(World))

\* The redo button.
Redo ==
  /\ OnControls
  /\ canRedo /\ recordingState # "playing"
  /\ Len(undoHistory) < MaxHistory
  /\ Discrete(redo(World))

\* Controls.handleOpenSmoothing.  The user smooths a motion that is drawn:
\* the arm has been released and the capture loop has stopped.
OpenSmoothing ==
  /\ OnControls
  /\ recordingState # "recording" /\ ~isFollowing
  /\ hasFrames /\ recordingState # "playing"
  /\ Len(currentTrajectory.frames) >= 3
  /\ Discrete([World EXCEPT !.originalTrajectory = currentTrajectory,
                            !.smoothingStrength = 0,
                            !.showSmoothingSlider = TRUE])

handleSmoothingChange(w, value) ==
  LET w1 == [w EXCEPT !.smoothingStrength = value]
  IN  IF w.originalTrajectory # Null /\ value > 0
      THEN [w1 EXCEPT !.currentTrajectory =
                         gaussianSmoothTrajectory(w.originalTrajectory,
                                                  strengthToSigma(value))]
      ELSE IF w.originalTrajectory # Null /\ value = 0
      THEN [w1 EXCEPT !.currentTrajectory = w.originalTrajectory]
      ELSE w1

\* The smoothing slider's input event.
SmoothingChange(value) ==
  /\ OnControls
  /\ showSmoothingSlider
  /\ value # smoothingStrength
  /\ Discrete(handleSmoothingChange(World, value))

\* Controls.handleCancelSmoothing.
CancelSmoothing ==
  /\ OnControls
  /\ showSmoothingSlider
  /\ Discrete([World EXCEPT
                 !.currentTrajectory =
                    IF originalTrajectory # Null THEN originalTrajectory ELSE @,
                 !.showSmoothingSlider = FALSE,
                 !.originalTrajectory = Null,
                 !.smoothingStrength = 0])

\* Controls.handleDoneSmoothing.
DoneSmoothing ==
  /\ OnControls
  /\ showSmoothingSlider
  /\ Discrete([World EXCEPT !.showSmoothingSlider = FALSE,
                            !.originalTrajectory = Null])

\* ------------------------------------------------------------ the timeline
\* Timeline.handleScrub from a mouse down on the timeline canvas.
Scrub(frameIndex) ==
  /\ OnControls
  /\ hasFrames
  /\ recordingState # "playing"
  /\ frameIndex \in 0..(FrameCount(currentTrajectory) - 1)
  /\ frameIndex # playbackFrame
  /\ Discrete([World EXCEPT !.playbackFrame = frameIndex])

\* redrawFromFrame saving the trajectory before it checks the index.
redrawFromFrameSavesFirst(w, frameIndex) ==
  IF w.currentTrajectory = Null THEN w
  ELSE LET inRange == frameIndex >= 0 /\ frameIndex < FrameCount(w.currentTrajectory)
           truncatedTrajectory ==
             IF inRange
             THEN [w.currentTrajectory EXCEPT
                     !.frames = SubSeq(@, 1, frameIndex + 1),
                     !.completed = FALSE,
                     !.totalTimeMs = w.currentTrajectory.frames[frameIndex + 1].timestamp]
             ELSE w.currentTrajectory
       IN  [w EXCEPT !.undoHistory = Append(@, w.currentTrajectory),
                     !.currentTrajectory = truncatedTrajectory,
                     !.recordingState = "idle",
                     !.redoHistory = <<>>]

redrawFromFrame(w, frameIndex) ==
  IF \/ w.currentTrajectory = Null
     \/ frameIndex < 0
     \/ frameIndex >= FrameCount(w.currentTrajectory)
  THEN w
  ELSE LET truncatedTrajectory ==
             [w.currentTrajectory EXCEPT
                !.frames = SubSeq(@, 1, frameIndex + 1),
                !.completed = FALSE,
                !.totalTimeMs = w.currentTrajectory.frames[frameIndex + 1].timestamp]
       IN  [w EXCEPT !.undoHistory = Append(@, w.currentTrajectory),
                     !.currentTrajectory = truncatedTrajectory,
                     !.recordingState = "idle",
                     !.redoHistory = <<>>]

canRedraw ==
  playbackFrame > 0 /\ playbackFrame < FrameCount(currentTrajectory) - 1

\* Timeline.handleRedrawFromHere / confirmRedraw.
Redraw ==
  /\ OnControls
  /\ hasFrames
  /\ canRedraw
  /\ Len(undoHistory) < MaxHistory
  /\ Discrete(redrawFromFrame(World, playbackFrame))

\* ------------------------------------------------------------------- system
Next ==
  \/ FlushEffects
  \/ CaptureTick
  \/ PlaybackTick
  \/ Advance
  \/ \E position \in MousePoints : MouseMove(position)
  \/ MouseLeave
  \/ \E clickPos \in MousePoints : MouseDown(clickPos)
  \/ Play
  \/ Pause
  \/ Reset
  \/ Undo
  \/ Redo
  \/ OpenSmoothing
  \/ \E value \in Strengths : SmoothingChange(value)
  \/ CancelSmoothing
  \/ DoneSmoothing
  \/ \E frameIndex \in 0..(MaxFrames - 1) : Scrub(frameIndex)
  \/ Redraw

Spec == Init /\ [][Next]_vars

\* Recording and playback: the user draws motions, plays, pauses, scrubs
\* and smooths them, and leaves the edit history alone.
NextPlay ==
  \/ FlushEffects
  \/ CaptureTick
  \/ PlaybackTick
  \/ Advance
  \/ \E position \in MousePoints : MouseMove(position)
  \/ MouseLeave
  \/ \E clickPos \in MousePoints : MouseDown(clickPos)
  \/ Play
  \/ Pause
  \/ OpenSmoothing
  \/ \E value \in Strengths : SmoothingChange(value)
  \/ CancelSmoothing
  \/ DoneSmoothing
  \/ \E frameIndex \in 0..(MaxFrames - 1) : Scrub(frameIndex)

SpecPlay == Init /\ [][NextPlay]_vars

\* Recording and editing: the user draws motions straight to the target,
\* scrubs, resets, redraws, undoes and redoes, and does not play.
NextEdit ==
  \/ FlushEffects
  \/ CaptureTick
  \/ Advance
  \/ \E position \in DirectPoints : MouseMove(position)
  \/ MouseLeave
  \/ \E clickPos \in DirectPoints : MouseDown(clickPos)
  \/ Reset
  \/ Undo
  \/ Redo
  \/ \E frameIndex \in 0..(MaxFrames - 1) : Scrub(frameIndex)
  \/ Redraw

SpecEdit == Init /\ [][NextEdit]_vars


\* Replay: a motion has been drawn from the initial pose to mid-canvas,
\* back, and on to the target, one frame per millisecond, and the pointer
\* has left the canvas.  The user plays, pauses, scrubs and smooths it.
ReplayTrajectory ==
  [frames |-> <<MotionFrame(0, inverseKinematics(PointS, TRUE)),
                MotionFrame(1, inverseKinematics(PointA, TRUE)),
                MotionFrame(2, inverseKinematics(PointS, TRUE)),
                MotionFrame(3, inverseKinematics(PointT, TRUE))>>,
   completed |-> TRUE,
   totalTimeMs |-> 0]

InitReplay ==
  /\ recordingState = "idle"
  /\ currentTrajectory = ReplayTrajectory
  /\ undoHistory = <<>>
  /\ redoHistory = <<>>
  /\ playbackFrame = Len(ReplayTrajectory.frames) - 1
  /\ robotConfig = inverseKinematics(PointT, TRUE)
  /\ mousePosition = Null
  /\ isFollowing = FALSE
  /\ hasStartedMoving = FALSE
  /\ lastMousePositionRef = Null
  /\ cachedIKRef = Null
  /\ startTimeRef = 0
  /\ lastRecordedConfigRef = Null
  /\ recordFrameRequest = FALSE
  /\ playbackStartTimeRef = 0
  /\ startFrameTimeRef = 0
  /\ startingFrameRef = 0
  /\ lastFrameIndexRef = -1
  /\ animateRequest = FALSE
  /\ originalTrajectory = Null
  /\ smoothingStrength = 0
  /\ showSmoothingSlider = FALSE
  /\ userSession = NewSession
  /\ appState = "recording"
  /\ framesCaptured = Len(ReplayTrajectory.frames)
  /\ seen = Snapshot(World)

NextReplay ==
  \/ FlushEffects
  \/ PlaybackTick
  \/ Advance
  \/ Play
  \/ Pause
  \/ OpenSmoothing
  \/ \E value \in Strengths : SmoothingChange(value)
  \/ CancelSmoothing
  \/ DoneSmoothing
  \/ \E frameIndex \in 0..(Len(ReplayTrajectory.frames) - 1) : Scrub(frameIndex)

SpecReplay == InitReplay /\ [][NextReplay]_vars

\* The browser runs a scheduled animation-frame callback and the deferred
\* effects of a commit, and time passes.
FairReplay ==
  /\ SpecReplay
  /\ WF_vars(PlaybackTick)
  /\ WF_vars(FlushEffects)
  /\ WF_vars(Advance)

\* ------------------------------------------------------------------ claims
\* C1: in every reachable state the frames of the current trajectory are in
\* non-decreasing timestamp order (also after an undo or a redo issued
\* while the state is recording).
C1_FramesSorted ==
  currentTrajectory # Null => IsSorted(currentTrajectory.frames)

\* C10: every new forward or destructive edit (a reset of the current
\* motion, a redraw from a frame, the start of a recording) leaves the redo
\* stack empty.
C10_EditClearsRedo ==
  [][(\/ Reset
      \/ Redraw
      \/ recordingState # "recording" /\ recordingState' = "recording")
       => redoHistory' = <<>>]_vars

\* The configuration has not changed since the last recorded frame.
Unchanged(config) ==
  /\ lastRecordedConfigRef # Null
  /\ Abs(lastRecordedConfigRef.shoulderAngle - config.shoulderAngle) <= AngleEpsilon
  /\ Abs(lastRecordedConfigRef.elbowAngle - config.elbowAngle) <= AngleEpsilon

\* C2: within one recording segment the first capture tick appends one
\* frame, and a capture tick that finds the arm's configuration (the live
\* one and the one the loop reads) within 1e-4 rad of the last recorded
\* angles appends nothing.
C2_CaptureDedup ==
  [][(CaptureTick =>
        /\ (Quiescent /\ lastRecordedConfigRef = Null /\ currentTrajectory # Null)
             => FrameCount(currentTrajectory')
                  = FrameCount(currentTrajectory) + 1
        /\ (Unchanged(robotConfig) /\ Unchanged(seen.robotConfig))
             => /\ FrameCount(currentTrajectory')
                    <= FrameCount(currentTrajectory)
                /\ lastRecordedConfigRef' = lastRecordedConfigRef)]_vars

\* The first frame of a segment is recorded, time has passed, and the arm
\* has not moved: the next ticks find an unchanged configuration.
C2_Witness ==
  /\ recordFrameRequest
  /\ Unchanged(robotConfig) /\ Unchanged(seen.robotConfig)
  /\ FrameCount(currentTrajectory) = 1
  /\ Now - startTimeRef > currentTrajectory.frames[1].timestamp

\* C3: the capture loop reschedules itself on every tick while the state is
\* recording, and a capture tick in any other state does not increase the
\* trajectory's frame count.
C3_CaptureOnlyWhileRecording ==
  [][(CaptureTick =>
        /\ recordingState = "recording" => recordFrameRequest'
        /\ recordingState # "recording"
             => FrameCount(currentTrajectory')
                  <= FrameCount(currentTrajectory))]_vars

\* C4: during one playback run the frame indices the playback tick
\* publishes are non-decreasing, and a tick ends the run exactly when it
\* selects the last index; also when the trajectory is replaced while
\* playing.
C4_PlaybackMonotone ==
  [][((PlaybackTick /\ recordingState = "playing") =>
        /\ recordingState' = "playing" => playbackFrame' >= playbackFrame
        /\ recordingState' # "playing"
             <=> lastFrameIndexRef' = FrameCount(currentTrajectory') - 1)]_vars

\* C5: no playback tick is pending in a state other than playing, so that
\* after a transition away from playing no playback tick changes the
\* angles, the published frame or the recording state.
C5_NoStalePlaybackTick ==
  animateRequest => recordingState = "playing"

\* Playback has been paused in mid-run, and its tick is cancelled.
C5_Witness ==
  /\ recordingState = "paused"
  /\ ~animateRequest
  /\ lastFrameIndexRef >= 0
  /\ playbackFrame < FrameCount(currentTrajectory) - 1

\* C6: a capture tick and a playback tick are never both pending.
C6_OneLoop ==
  ~(recordFrameRequest /\ animateRequest)

\* A motion has been recorded and is playing: the capture loop has given
\* way to the playback loop.
C6_Witness ==
  /\ animateRequest
  /\ ~recordFrameRequest
  /\ framesCaptured > 0
  /\ recordingState = "playing"

\* C7: under fair scheduling of ticks and advancing time every playback run
\* ends paused; the tick that selects the last index pauses and schedules
\* no further tick; and while playing, the index the loop has selected does
\* not go back to an earlier frame.
C7_PlaybackTerminates ==
  /\ (recordingState = "playing") ~> (recordingState = "paused")
  /\ [][((PlaybackTick /\ recordingState = "playing"
            /\ lastFrameIndexRef' = FrameCount(currentTrajectory') - 1)
           => (recordingState' = "paused" /\ ~animateRequest'))
        /\ ((recordingState = "playing" /\ recordingState' = "playing")
              => lastFrameIndexRef' >= lastFrameIndexRef)]_vars

C9_UndoRedoRoundTrip ==
  [][((Reset \/ Redraw) =>
        (/\ undoHistory' # <<>>
         /\ undoHistory'[Len(undoHistory')] = currentTrajectory))
     /\ (Undo =>
           (/\ currentTrajectory' = undoHistory[Len(undoHistory)]
            /\ redoHistory' # <<>>
            /\ redoHistory'[Len(redoHistory')] = currentTrajectory))
     /\ (Redo => currentTrajectory' = redoHistory[Len(redoHistory)])]_vars

\* ------------------------------------------------- events as functions
\* The events above, as functions of the state they start in: p is a
\* world together with the render whose effects ran last.

\* Discrete, from world w with effects run for render s.
DiscreteResult(w, s, h) ==
  LET rendered == Render(w.recordingState = "playing", h)
      r == Snapshot(rendered)
  IN  [world |-> Render(r.recordingState = "playing", RunEffects(rendered, r, s)),
       seen |-> r]

\* FlushEffects, from p.
FlushResult(p) ==
  LET r == Snapshot(p.world)
  IN  [world |-> Render(p.world.recordingState = "playing",
                        RunEffects(p.world, r, p.seen)),
       seen |-> r]

\* The deferred effects run until none is pending (the browser runs them
\* before it handles the next click); rounds bounds the number of flushes.
RECURSIVE Settle(_, _)
Settle(p, rounds) ==
  IF p.seen = Snapshot(p.world) \/ rounds = 0
  THEN p
  ELSE Settle(FlushResult(p), rounds - 1)

MaxRounds == 4

\* ------------------------------------------------------------------ claims
\* C11: undo pops the top of the undo stack into the current trajectory and
\* pushes the trajectory it replaces onto the redo stack, and redo mirrors
\* it; pressing Undo and then Redo leaves the current trajectory, the undo
\* stack and the redo stack as they were before the Undo.
C11_UndoThenRedo ==
  [][Undo =>
       LET u == undo(World)
           undone == Settle([world |-> World', seen |-> seen'], MaxRounds)
           redone == DiscreteResult(undone.world, undone.seen, redo(undone.world))
       IN  /\ u.currentTrajectory = undoHistory[Len(undoHistory)]
           /\ u.undoHistory = SubSeq(undoHistory, 1, Len(undoHistory) - 1)
           /\ u.redoHistory = Append(redoHistory, currentTrajectory)
           /\ undone.seen = Snapshot(undone.world)
           /\ redone.world.currentTrajectory = currentTrajectory
           /\ redone.world.undoHistory = undoHistory
           /\ redone.world.redoHistory = redoHistory]_vars

\* C12: for a trajectory of n frames and 0 <= k < n, redrawing from frame k
\* leaves a current trajectory whose frames are frames[0..k] of the original
\* (k+1 frames, same order and content), with completed = false and
\* totalTimeMs = frames[k].timestamp.  Stated of the handler for every k in
\* every reachable state, and of the trajectory the Redraw event leaves.
C12_RedrawTruncates ==
  /\ [](currentTrajectory # Null =>
          \A k \in 0..(FrameCount(currentTrajectory) - 1) :
            LET t == redrawFromFrame(World, k).currentTrajectory
            IN  /\ t.frames = SubSeq(currentTrajectory.frames, 1, k + 1)
                /\ ~t.completed
                /\ t.totalTimeMs = currentTrajectory.frames[k + 1].timestamp)
  /\ [][Redraw =>
          /\ currentTrajectory'.frames =
               SubSeq(currentTrajectory.frames, 1, playbackFrame + 1)
          /\ ~currentTrajectory'.completed
          /\ currentTrajectory'.totalTimeMs =
               currentTrajectory.frames[playbackFrame + 1].timestamp]_vars

\* Indices outside a trajectory of n frames: below 0, n, and above n.
OutOfRange(trajectory) ==
  {-1, FrameCount(trajectory), FrameCount(trajectory) + 1}

\* The state in which a handler is called while the current trajectory is
\* null (between a reset and AppContent's effect).
NoTrajectory == [World EXCEPT !.currentTrajectory = Null]

\* C13: redraw-from-frame with an index below 0 or at or above the number of
\* frames, or with no current trajectory, changes nothing: the handler
\* returns the state it was given, and the event as a whole leaves the
\* current trajectory, both stacks and the recording state as they were.
C13_RedrawOutOfRangeNoOp ==
  /\ \A k \in OutOfRange(currentTrajectory) :
       /\ redrawFromFrame(World, k) = World
       /\ Quiescent =>
            DiscreteResult(World, seen, redrawFromFrame(World, k)).world = World
  /\ \A k \in -1..MaxFrames :
       redrawFromFrame(NoTrajectory, k) = NoTrajectory

\* A trajectory with frames to truncate and an undo stack to grow.
C13_Witness ==
  /\ Quiescent
  /\ FrameCount(currentTrajectory) >= 2
  /\ undoHistory # <<>>

\* C14: undo with an empty undo stack and redo with an empty redo stack
\* change nothing: the handler returns the state it was given, and the
\* event as a whole leaves the current trajectory and both stacks as they
\* were.
C14_EmptyStackNoOp ==
  /\ undoHistory = <<>> =>
       /\ undo(World) = World
       /\ Quiescent => DiscreteResult(World, seen, undo(World)).world = World
  /\ redoHistory = <<>> =>
       /\ redo(World) = World
       /\ Quiescent => DiscreteResult(World, seen, redo(World)).world = World

\* Nothing to undo, with a trajectory drawn and a redo stack to lose.
C14_Witness ==
  /\ Quiescent
  /\ undoHistory = <<>>
  /\ redoHistory # <<>>
  /\ hasFrames

\* The events that replace the current trajectory as a whole.
ExplicitEdit ==
  \/ Reset \/ Redraw \/ Undo \/ Redo
  \/ CancelSmoothing
  \/ \E value \in Strengths : SmoothingChange(value)

\* C15: once the current trajectory is completed it stays completed in
\* every step that is not an explicit edit (reset, redraw, undo, redo,
\* smoothing); neither the target test after the arm left the zone nor a
\* capture tick appending a frame sets the flag back to false.
C15_CompletedSticky ==
  [][(/\ currentTrajectory # Null
      /\ currentTrajectory.completed
      /\ ~ExplicitEdit)
     => (currentTrajectory' # Null /\ currentTrajectory'.completed)]_vars

\* C16: outside the explicit edits, the completed flag of the current
\* trajectory turns from false to true only in a step taken with the live
\* arm's end effector inside the target zone; and once the effects have
\* run, an arm inside the zone means that the current trajectory is
\* completed.
C16_CompletedIffInZone ==
  /\ [][(/\ currentTrajectory # Null /\ ~currentTrajectory.completed
         /\ currentTrajectory' # Null /\ currentTrajectory'.completed
         /\ ~ExplicitEdit)
        => ArmInTargetZone(robotConfig)]_vars
  /\ []((Quiescent /\ currentTrajectory # Null /\ ArmInTargetZone(robotConfig))
          => currentTrajectory.completed)

\* A recorded motion that the arm's arrival in the zone has completed.
C16_Witness ==
  /\ Quiescent
  /\ hasFrames
  /\ currentTrajectory.completed
  /\ ArmInTargetZone(robotConfig)

\* C17: in every reachable state the current trajectory's totalTimeMs is the
\* timestamp of its last frame, or 0 when it has no frames.
C17_TotalTimeIsLastTimestamp ==
  currentTrajectory # Null =>
    currentTrajectory.totalTimeMs =
      (IF currentTrajectory.frames = <<>> THEN 0
       ELSE currentTrajectory.frames[Len(currentTrajectory.frames)].timestamp)

\* The timestamp of a trajectory's last frame, 0 when it has none.
LastTimestamp(trajectory) ==
  IF trajectory = Null \/ FrameCount(trajectory) = 0 THEN 0
  ELSE trajectory.frames[Len(trajectory.frames)].timestamp

\* The time elapsed on the capture loop's clock.
RecordingElapsed == Now - startTimeRef

MaxStamp == 3

MaxSearchLen == 4

SortedStamps ==
  {s \in UNION {[1..n -> 0..MaxStamp] : n \in 1..MaxSearchLen} :
     \A i \in 1..(Len(s) - 1) : s[i] <= s[i + 1]}

SearchTrajectory(stamps) ==
  [frames |-> [i \in 1..Len(stamps) |->
                 MotionFrame(stamps[i],
                             IF i % 2 = 1 THEN InitialConfig
                             ELSE inverseKinematics(PointA, TRUE))],
   completed |-> FALSE,
   totalTimeMs |-> 0]

InitSearch ==
  \E stamps \in SortedStamps, played \in 0..(MaxStamp + 1) :
    /\ recordingState = "playing"
    /\ currentTrajectory = SearchTrajectory(stamps)
    /\ undoHistory = <<>>
    /\ redoHistory = <<>>
    /\ playbackFrame = 0
    /\ robotConfig = InitialConfig
    /\ mousePosition = Null
    /\ isFollowing = FALSE
    /\ hasStartedMoving = FALSE
    /\ lastMousePositionRef = Null
    /\ cachedIKRef = Null
    /\ startTimeRef = 0
    /\ lastRecordedConfigRef = Null
    /\ recordFrameRequest = FALSE
    /\ playbackStartTimeRef = Now - played
    /\ startFrameTimeRef = stamps[1]
    /\ startingFrameRef = 0
    /\ lastFrameIndexRef = 0
    /\ animateRequest = TRUE
    /\ originalTrajectory = Null
    /\ smoothingStrength = 0
    /\ showSmoothingSlider = FALSE
    /\ userSession = NewSession
    /\ appState = "recording"
    /\ framesCaptured = Len(stamps)
    /\ seen = Snapshot(World)

NextSearch ==
  \/ PlaybackTick
  \/ FlushEffects
  \/ Advance

SpecSearch == InitSearch /\ [][NextSearch]_vars

\* A linear scan for the last frame stamped at or before the elapsed time,
\* from index i on; frameIndex is the answer so far.
RECURSIVE LinearScan(_, _, _, _)
LinearScan(frames, elapsedTime, i, frameIndex) ==
  IF i > Len(frames) - 1 THEN frameIndex
  ELSE LinearScan(frames, elapsedTime, i + 1,
                  IF frames[i + 1].timestamp <= elapsedTime THEN i ELSE frameIndex)

\* The elapsed values looked up: from before the first stamp to after the
\* last one.
SearchTimes == -1..(MaxStamp + 2)

LocatedIndex ==
  BinarySearch(currentTrajectory.frames, PlaybackElapsed,
               0, FrameCount(currentTrajectory) - 1, 0)

\* C20: a playback tick that locates the index of the previous tick (the
\* start frame on the first tick) leaves the arm's joint angles and the
\* published playback frame unchanged; a tick that locates another index
\* publishes it and writes that frame's joint angles to the arm.
C20_PublishOnChange ==
  [][(PlaybackTick /\ hasFrames) =>
       IF LocatedIndex = lastFrameIndexRef
       THEN /\ robotConfig' = robotConfig
            /\ playbackFrame' = playbackFrame
            /\ lastFrameIndexRef' = lastFrameIndexRef
       ELSE LET targetFrame == currentTrajectory.frames[LocatedIndex + 1]
            IN  /\ lastFrameIndexRef' = LocatedIndex
                /\ playbackFrame' = LocatedIndex
                /\ robotConfig'.shoulderAngle = targetFrame.shoulderAngle
                /\ robotConfig'.elbowAngle = targetFrame.elbowAngle]_vars

\* A tick in the middle of a playback that located the frame already shown:
\* time has passed since playback started, the previous index is published.
C20_Witness ==
  /\ recordingState = "playing"
  /\ animateRequest
  /\ Quiescent
  /\ playbackStartTimeRef < Now
  /\ lastFrameIndexRef > 0
  /\ lastFrameIndexRef = playbackFrame
  /\ LocatedIndex = lastFrameIndexRef
  /\ lastFrameIndexRef < FrameCount(currentTrajectory) - 1

\* ------------------------------------------------ the smoothing transforms
\* strengthToWindowSize: Math.max(1, Math.floor(1 + (strength / 100) * 14)).
strengthToWindowSizeWide(strength) == Max(1, 1 + (strength * 15) \div 100)

strengthToWindowSize(strength) == Max(1, 1 + (strength * 14) \div 100)

\* The loop of smoothTrajectory over i = startIdx..endIdx: the sums of both
\* angles and the number of frames added.
RECURSIVE WindowSums(_, _, _)
WindowSums(frames, i, endIdx) ==
  IF i > endIdx
  THEN [sumShoulderAngle |-> 0, sumElbowAngle |-> 0, count |-> 0]
  ELSE LET rest == WindowSums(frames, i + 1, endIdx)
       IN  [sumShoulderAngle |-> rest.sumShoulderAngle + frames[i].shoulderAngle,
            sumElbowAngle |-> rest.sumElbowAngle + frames[i].elbowAngle,
            count |-> rest.count + 1]

\* A moving average that keeps only the frames whose window is complete.
MovingAverageFramesValid(trajectory, windowSize) ==
  LET frames == trajectory.frames
      halfWindow == windowSize \div 2
      Smoothed(index) ==
        LET sums == WindowSums(frames, index - halfWindow, index + halfWindow)
        IN  [frames[index] EXCEPT
               !.shoulderAngle = RoundDiv(sums.sumShoulderAngle, sums.count),
               !.elbowAngle = RoundDiv(sums.sumElbowAngle, sums.count)]
  IN  [k \in 1..Max(0, Len(frames) - 2 * halfWindow) |-> Smoothed(k + halfWindow)]

\* The frames smoothTrajectory maps the trajectory's frames to.
MovingAverageFrames(trajectory, windowSize) ==
  LET frames == trajectory.frames
      halfWindow == windowSize \div 2
      Smoothed(index) ==
        LET startIdx == Max(1, index - halfWindow)
            endIdx == Min(Len(frames), index + halfWindow)
            sums == WindowSums(frames, startIdx, endIdx)
        IN  [frames[index] EXCEPT
               !.shoulderAngle = RoundDiv(sums.sumShoulderAngle, sums.count),
               !.elbowAngle = RoundDiv(sums.sumElbowAngle, sums.count)]
  IN  [index \in 1..Len(frames) |-> Smoothed(index)]

smoothTrajectoryNoFloor(trajectory, windowSize) ==
  [trajectory EXCEPT !.frames = MovingAverageFrames(trajectory, windowSize)]

smoothTrajectory(trajectory, windowSize) ==
  IF Len(trajectory.frames) < windowSize THEN trajectory
  ELSE [trajectory EXCEPT !.frames = MovingAverageFrames(trajectory, windowSize)]

\* The smoothing functions applied to arbitrary recorded motions: up to
\* MaxSmoothLen frames, 16 ms apart, each with one of three arm poses, with
\* either completed flag.  originalTrajectory holds the motion handed to the
\* transform, currentTrajectory its result (Null before the first call),
\* smoothingStrength the strength the window size or the sigma is derived
\* from.
MaxSmoothLen == 4

FrameInterval == 16

SmoothConfigs ==
  {InitialConfig, inverseKinematics(PointA, TRUE), inverseKinematics(PointT, TRUE)}

SmoothTrajectoryOf(configs, completed) ==
  [frames |-> [i \in 1..Len(configs) |->
                 MotionFrame((i - 1) * FrameInterval, configs[i])],
   startPosition |-> forwardKinematics(InitialConfig).endEffectorPosition,
   targetPosition |-> TargetPosition,
   completed |-> completed,
   totalTimeMs |-> IF configs = <<>> THEN 0
                   ELSE (Len(configs) - 1) * FrameInterval]

SmoothInputs ==
  {SmoothTrajectoryOf(configs, completed) :
     configs \in UNION {[1..n -> SmoothConfigs] : n \in 0..MaxSmoothLen},
     completed \in BOOLEAN}

InitSmooth ==
  \E trajectory \in SmoothInputs, strength \in 0..100 :
    /\ recordingState = "idle"
    /\ currentTrajectory = Null
    /\ undoHistory = <<>>
    /\ redoHistory = <<>>
    /\ playbackFrame = 0
    /\ robotConfig = InitialConfig
    /\ mousePosition = Null
    /\ isFollowing = FALSE
    /\ hasStartedMoving = FALSE
    /\ lastMousePositionRef = Null
    /\ cachedIKRef = Null
    /\ startTimeRef = 0
    /\ lastRecordedConfigRef = Null
    /\ recordFrameRequest = FALSE
    /\ playbackStartTimeRef = 0
    /\ startFrameTimeRef = 0
    /\ startingFrameRef = 0
    /\ lastFrameIndexRef = -1
    /\ animateRequest = FALSE
    /\ originalTrajectory = trajectory
    /\ smoothingStrength = strength
    /\ showSmoothingSlider = FALSE
    /\ userSession = NewSession
    /\ appState = "recording"
    /\ framesCaptured = Len(trajectory.frames)
    /\ seen = Snapshot(World)

SmoothUnchanged ==
  UNCHANGED <<recordingState, undoHistory, redoHistory, playbackFrame,
              robotConfig, mousePosition, isFollowing, hasStartedMoving,
              lastMousePositionRef, cachedIKRef, startTimeRef,
              lastRecordedConfigRef, recordFrameRequest, playbackStartTimeRef,
              startFrameTimeRef, startingFrameRef, lastFrameIndexRef,
              animateRequest, originalTrajectory, smoothingStrength,
              showSmoothingSlider, userSession, appState,
              framesCaptured, seen>>

\* smoothTrajectory(originalTrajectory, strengthToWindowSize(strength)).
MovingAverage ==
  /\ currentTrajectory' =
       smoothTrajectory(originalTrajectory,
                        strengthToWindowSize(smoothingStrength))
  /\ SmoothUnchanged

\* gaussianSmoothTrajectory(originalTrajectory, strengthToSigma(strength)).
Gaussian ==
  /\ smoothingStrength \in Strengths
  /\ currentTrajectory' =
       gaussianSmoothTrajectory(originalTrajectory,
                                strengthToSigma(smoothingStrength))
  /\ SmoothUnchanged

NextSmooth ==
  \/ MovingAverage
  \/ Gaussian

SpecSmooth == InitSmooth /\ [][NextSmooth]_vars

\* C21: below the size floor both transforms return their input: the moving
\* average of a motion with fewer frames than the window size, and the
\* Gaussian smoothing of a motion with fewer than three frames, is the
\* motion itself.
C21_BelowFloorUnchanged ==
  [][/\ (MovingAverage
         /\ Len(originalTrajectory.frames)
              < strengthToWindowSize(smoothingStrength))
        => (currentTrajectory' = originalTrajectory)
     /\ (Gaussian /\ Len(originalTrajectory.frames) < 3)
        => (currentTrajectory' = originalTrajectory)]_vars

\* Two frames with different poses, returned as they are at a strength whose
\* window is wider than two frames.
C21_Witness ==
  /\ Len(originalTrajectory.frames) = 2
  /\ originalTrajectory.frames[1].shoulderAngle
       # originalTrajectory.frames[2].shoulderAngle
  /\ smoothingStrength = 50
  /\ strengthToWindowSize(smoothingStrength) > 2
  /\ currentTrajectory = originalTrajectory

\* C22: both transforms return a motion with as many frames as their input,
\* the same timestamps in the same order, and the same completed flag,
\* totalTimeMs, start and target positions, and leave their input as it
\* was; the moving average keeps every frame's positions as well.
C22_EnvelopeKept ==
  [][(MovingAverage \/ Gaussian) =>
       LET input == originalTrajectory
           output == currentTrajectory'
       IN  /\ originalTrajectory' = input
           /\ Len(output.frames) = Len(input.frames)
           /\ \A i \in 1..Len(input.frames) :
                /\ output.frames[i].timestamp = input.frames[i].timestamp
                /\ MovingAverage =>
                     /\ output.frames[i].elbowPosition
                          = input.frames[i].elbowPosition
                     /\ output.frames[i].endEffectorPosition
                          = input.frames[i].endEffectorPosition
           /\ output.completed = input.completed
           /\ output.totalTimeMs = input.totalTimeMs
           /\ output.startPosition = input.startPosition
           /\ output.targetPosition = input.targetPosition]_vars

\* A completed four-frame motion whose second frame came out with another
\* shoulder angle.
C22_Witness ==
  /\ currentTrajectory # Null
  /\ Len(originalTrajectory.frames) = 4
  /\ originalTrajectory.completed
  /\ currentTrajectory.frames[2].shoulderAngle
       # originalTrajectory.frames[2].shoulderAngle

\* --------------------------------------------- the arm frames are captured with
\* POSE_PRESETS[ACTIVE_POSE_PRESET].shoulderPosition, in 0.01 px.
ActivePoseShoulderPosition == [x |-> 45000, y |-> 30000]

\* AppProvider's robotConfig, the arm recordFrame computes positions for.
CapturedArm ==
  [shoulderPosition |-> ActivePoseShoulderPosition,
   upperArmLength |-> UpperArmLength,
   lowerArmLength |-> LowerArmLength]

\* forwardKinematics for an arm given by its shoulder position and lengths.
forwardKinematicsOf(arm, shoulderAngle, elbowAngle) ==
  LET elbowPosition ==
        polarToCartesian(arm.shoulderPosition, shoulderAngle, arm.upperArmLength)
  IN  [elbowPosition |-> elbowPosition,
       endEffectorPosition |->
         polarToCartesian(elbowPosition, shoulderAngle + elbowAngle,
                          arm.lowerArmLength)]

\* C23: after Gaussian smoothing every frame's elbow and end-effector
\* positions are the forward kinematics of that frame's smoothed angles for
\* the arm (shoulder position, segment lengths) the frames were captured
\* with.
C23_GaussianPositionsConsistent ==
  [][Gaussian =>
       \A i \in 1..Len(currentTrajectory'.frames) :
         LET frame == currentTrajectory'.frames[i]
             fk == forwardKinematicsOf(CapturedArm, frame.shoulderAngle,
                                       frame.elbowAngle)
         IN  /\ frame.elbowPosition = fk.elbowPosition
             /\ frame.endEffectorPosition = fk.endEffectorPosition]_vars

\* A Gaussian smoothing that moved the end effector of the middle frame of a
\* three-frame motion.
C23_Witness ==
  /\ currentTrajectory # Null
  /\ Len(originalTrajectory.frames) = 3
  /\ smoothingStrength = 100
  /\ currentTrajectory.frames[2].elbowAngle
       # originalTrajectory.frames[2].elbowAngle
  /\ currentTrajectory.frames[2].endEffectorPosition
       # originalTrajectory.frames[2].endEffectorPosition

\* C24: for a motion of at least windowSize frames the moving average sets
\* frame i's shoulder and elbow angles to their means over a symmetric
\* window around i, clamped to the motion, in which at most windowSize
\* frames contribute, and keeps the frame's positions.
C24_MovingAverageWindow ==
  [][(MovingAverage
       /\ Len(originalTrajectory.frames)
            >= strengthToWindowSize(smoothingStrength)) =>
       LET frames == originalTrajectory.frames
           windowSize == strengthToWindowSize(smoothingStrength)
       IN  \A i \in 1..Len(frames) :
             LET frame == currentTrajectory'.frames[i]
             IN  /\ \E reach \in 0..windowSize :
                      LET sums == WindowSums(frames, Max(1, i - reach),
                                             Min(Len(frames), i + reach))
                      IN  /\ sums.count <= windowSize
                          /\ frame.shoulderAngle
                               = RoundDiv(sums.sumShoulderAngle, sums.count)
                          /\ frame.elbowAngle
                               = RoundDiv(sums.sumElbowAngle, sums.count)
                 /\ frame.elbowPosition = frames[i].elbowPosition
                 /\ frame.endEffectorPosition
                      = frames[i].endEffectorPosition]_vars

\* C25: for every integer strength s in 0..100, strengthToWindowSize(s) is
\* an integer in 1..15, no smaller than its value at any smaller strength,
\* 1 at strength 0 and 15 at strength 100.
C25_WindowSizeRange ==
  LET windowSize == strengthToWindowSize(smoothingStrength)
  IN  /\ smoothingStrength \in 0..100
      /\ windowSize \in 1..15
      /\ \A weaker \in 0..smoothingStrength :
           strengthToWindowSize(weaker) <= windowSize
      /\ smoothingStrength = 0 => windowSize = 1
      /\ smoothingStrength = 100 => windowSize = 15

\* The moving average applied at full strength, a strength in between, and
\* strength 0: windows of 15, 8 and 1 frames.
C25_Witness ==
  /\ currentTrajectory # Null
  /\ smoothingStrength = 100
  /\ strengthToWindowSize(smoothingStrength) = 15
  /\ strengthToWindowSize(50) = 8
  /\ strengthToWindowSize(0) = 1
  /\ Len(originalTrajectory.frames) = MaxSmoothLen

\* C26: smoothing at strength 0 is an identity: the moving average with
\* strengthToWindowSize(0), the Gaussian smoothing with strengthToSigma(0)
\* and the slider set to 0 each produce a motion whose frames have the
\* angles and positions of the original's.
C26_StrengthZeroIdentity ==
  [][smoothingStrength = 0 =>
       LET SameFrames(output) ==
             /\ Len(output.frames) = Len(originalTrajectory.frames)
             /\ \A i \in 1..Len(originalTrajectory.frames) :
                  LET original == originalTrajectory.frames[i]
                      frame == output.frames[i]
                  IN  /\ frame.shoulderAngle = original.shoulderAngle
                      /\ frame.elbowAngle = original.elbowAngle
                      /\ frame.elbowPosition = original.elbowPosition
                      /\ frame.endEffectorPosition = original.endEffectorPosition
       IN  /\ MovingAverage => SameFrames(currentTrajectory')
           /\ Gaussian => SameFrames(currentTrajectory')
           /\ SameFrames(handleSmoothingChange(World, 0).currentTrajectory)]_vars

\* ------------------------------------------- inverse kinematics, computed
\* Math.sqrt, rounded down, for 0 <= n < 2^31.
RECURSIVE SqrtBetween(_, _, _)
SqrtBetween(n, low, high) ==
  IF low >= high THEN low
  ELSE LET mid == (low + high + 1) \div 2
       IN  IF mid * mid <= n THEN SqrtBetween(n, mid, high)
           ELSE SqrtBetween(n, low, mid - 1)

Sqrt(n) == SqrtBetween(n, 0, 46340)

\* Math.atan2(v, u) for 0 <= v <= u, u > 0: the largest angle in 0..pi/4
\* whose tangent is at most v / u.
RECURSIVE AtanBetween(_, _, _, _)
AtanBetween(v, u, low, high) ==
  IF low >= high THEN low
  ELSE LET mid == (low + high + 1) \div 2
       IN  IF Sin(mid) * u <= Cos(mid) * v THEN AtanBetween(v, u, mid, high)
           ELSE AtanBetween(v, u, low, mid - 1)

\* Math.atan2(y, x), in 0.0001 rad.
Atan2(y, x) ==
  IF x = 0 /\ y = 0 THEN 0
  ELSE LET ax == Abs(x)
           ay == Abs(y)
           firstQuadrant ==
             IF ay <= ax THEN AtanBetween(ay, ax, 0, Pi \div 4)
             ELSE Pi \div 2 - AtanBetween(ax, ay, 0, Pi \div 4)
           upperHalf == IF x < 0 THEN Pi - firstQuadrant ELSE firstQuadrant
       IN  IF y < 0 THEN -upperHalf ELSE upperHalf

\* Math.acos of the quotient num / den (den > 0) after its clamp to [-1, 1],
\* by the half-angle identity tan^2(t / 2) = (1 - cos t) / (1 + cos t).
Acos(num, den) ==
  LET clamped == Max(-den, Min(den, num))
  IN  2 * Atan2(Sqrt(den - clamped), Sqrt(den + clamped))

\* distance(p1, p2), in 0.01 px; beyond 320 px from p1 in coarser units.
distance(p1, p2) ==
  LET dx == Abs(p2.x - p1.x)
      dy == Abs(p2.y - p1.y)
      coarse == Max(dx, dy) \div 32000 + 1
  IN  coarse * Sqrt((dx \div coarse) * (dx \div coarse)
                    + (dy \div coarse) * (dy \div coarse))

angleTo(p1, p2) == Atan2(p2.y - p1.y, p2.x - p1.x)

\* An inverse kinematics that reports the target itself as the clamped
\* target.
inverseKinematicsOfUnclamped(arm, targetPosition, elbowUp) ==
  LET a == 100 * arm.upperArmLength
      b == 100 * arm.lowerArmLength
      dist == Max(Abs(a - b), Min(a + b, distance(arm.shoulderPosition,
                                                  targetPosition)))
      interiorAngle == Acos(a * a + b * b - dist * dist, 2 * a * b)
      shoulderOffset == Acos(a * a + dist * dist - b * b, 2 * a * dist)
      angleToTarget == angleTo(arm.shoulderPosition, targetPosition)
  IN  [shoulderAngle |-> IF elbowUp THEN angleToTarget - shoulderOffset
                         ELSE angleToTarget + shoulderOffset,
       elbowAngle |-> IF elbowUp THEN Pi - interiorAngle
                      ELSE -(Pi - interiorAngle),
       clampedTarget |-> targetPosition]

\* An inverse kinematics whose elbow-up solution bends the elbow by the
\* interior angle itself.
inverseKinematicsOfInterior(arm, targetPosition, elbowUp) ==
  LET a == 100 * arm.upperArmLength
      b == 100 * arm.lowerArmLength
      dist == Max(Abs(a - b), Min(a + b, distance(arm.shoulderPosition,
                                                  targetPosition)))
      interiorAngle == Acos(a * a + b * b - dist * dist, 2 * a * b)
      shoulderOffset == Acos(a * a + dist * dist - b * b, 2 * a * dist)
      angleToTarget == angleTo(arm.shoulderPosition, targetPosition)
  IN  [shoulderAngle |-> IF elbowUp THEN angleToTarget - shoulderOffset
                         ELSE angleToTarget + shoulderOffset,
       elbowAngle |-> IF elbowUp THEN interiorAngle ELSE -interiorAngle,
       clampedTarget |-> targetPosition]

\* inverseKinematics(arm.shoulderPosition, targetPosition,
\* arm.upperArmLength, arm.lowerArmLength, elbowUp).
inverseKinematicsOf(arm, targetPosition, elbowUp) ==
  LET a == 100 * arm.upperArmLength
      b == 100 * arm.lowerArmLength
      reached == distance(arm.shoulderPosition, targetPosition)
      maxReach == a + b
      minReach == Abs(a - b)
      clampedTarget ==
        IF reached > maxReach
        THEN polarToCartesian(arm.shoulderPosition,
                              angleTo(arm.shoulderPosition, targetPosition),
                              arm.upperArmLength + arm.lowerArmLength)
        ELSE IF reached < minReach
        THEN polarToCartesian(arm.shoulderPosition,
                              angleTo(arm.shoulderPosition, targetPosition),
                              Abs(arm.upperArmLength - arm.lowerArmLength))
        ELSE targetPosition
      dist == IF reached > maxReach THEN maxReach
              ELSE IF reached < minReach THEN minReach
              ELSE reached
      angleToTarget == angleTo(arm.shoulderPosition, clampedTarget)
      interiorAngle == Acos(a * a + b * b - dist * dist, 2 * a * b)
      elbowAngle == IF elbowUp THEN Pi - interiorAngle ELSE -(Pi - interiorAngle)
      shoulderOffset == Acos(a * a + dist * dist - b * b, 2 * a * dist)
      shoulderAngle == IF elbowUp THEN angleToTarget - shoulderOffset
                       ELSE angleToTarget + shoulderOffset
  IN  [shoulderAngle |-> shoulderAngle,
       elbowAngle |-> elbowAngle,
       clampedTarget |-> clampedTarget]

\* The inverse kinematics of the program's arm applied to arbitrary mouse
\* targets: a grid of offsets from the shoulder, in px, reaching beyond the
\* arm's reach on every side, and offsets on the reach limits, inside the
\* inner limit, far outside, and the shoulder itself.  mousePosition holds
\* the target, cachedIKRef the solution as the drag controller caches it.
ReachStep == 70

ReachCells == 6

PositionTolerance == 20    \* 0.2 px: the resolution of the fixed point

ReachOffsets ==
  {<<ReachStep * i, ReachStep * j>> :
     i \in (-ReachCells)..ReachCells, j \in (-ReachCells)..ReachCells}
  \cup {<<1000, 0>>, <<5, 0>>, <<0, 0>>, <<280, 0>>, <<0, -280>>, <<20, 0>>,
        <<224, -168>>, <<150, -200>>, <<-12, 16>>, <<-3, 4>>}

TargetAt(arm, offset) ==
  [x |-> arm.shoulderPosition.x + 100 * offset[1],
   y |-> arm.shoulderPosition.y + 100 * offset[2]]

\* The arm of the examples: shoulder at the origin.
OriginArm ==
  [shoulderPosition |-> [x |-> 0, y |-> 0],
   upperArmLength |-> UpperArmLength,
   lowerArmLength |-> LowerArmLength]

InitReach ==
  \E offset \in ReachOffsets :
    /\ recordingState = "idle"
    /\ currentTrajectory = EmptyTrajectory
    /\ undoHistory = <<>>
    /\ redoHistory = <<>>
    /\ playbackFrame = 0
    /\ robotConfig = InitialConfig
    /\ mousePosition = TargetAt(CapturedArm, offset)
    /\ isFollowing = TRUE
    /\ hasStartedMoving = FALSE
    /\ lastMousePositionRef = Null
    /\ cachedIKRef = Null
    /\ startTimeRef = 0
    /\ lastRecordedConfigRef = Null
    /\ recordFrameRequest = FALSE
    /\ playbackStartTimeRef = 0
    /\ startFrameTimeRef = 0
    /\ startingFrameRef = 0
    /\ lastFrameIndexRef = -1
    /\ animateRequest = FALSE
    /\ originalTrajectory = Null
    /\ smoothingStrength = 0
    /\ showSmoothingSlider = FALSE
    /\ userSession = NewSession
    /\ appState = "recording"
    /\ framesCaptured = 0
    /\ seen = Snapshot(World)

\* inverseKinematics(SHOULDER_POSITION, mousePosition, ..., elbowUp), its
\* result cached and its angles given to the arm.
Solve(elbowUp) ==
  LET ik == inverseKinematicsOf(CapturedArm, mousePosition, elbowUp)
  IN  /\ cachedIKRef' = ik
      /\ lastMousePositionRef' = mousePosition
      /\ robotConfig' = [shoulderAngle |-> ik.shoulderAngle,
                         elbowAngle |-> ik.elbowAngle]
      /\ UNCHANGED <<recordingState, currentTrajectory, undoHistory,
                     redoHistory, playbackFrame, mousePosition, isFollowing,
                     hasStartedMoving, startTimeRef, lastRecordedConfigRef,
                     recordFrameRequest, playbackStartTimeRef,
                     startFrameTimeRef, startingFrameRef, lastFrameIndexRef,
                     animateRequest, originalTrajectory, smoothingStrength,
                     showSmoothingSlider, userSession, appState,
                     framesCaptured, seen>>

SolveElbowUp == Solve(TRUE)

SolveElbowDown == Solve(FALSE)

NextReach ==
  \/ SolveElbowUp
  \/ SolveElbowDown

SpecReach == InitReach /\ [][NextReach]_vars

\* C27: inverseKinematics returns a solution for every target; its
\* clampedTarget lies on the ray from the shoulder through the target at
\* the distance min(max(dist, |len1 - len2|), len1 + len2), and is the
\* target itself when that is within reach.  With the shoulder at the
\* origin a target 1000 px out on +x gives (280, 0), one 5 px out gives
\* (20, 0).
C27_ClampedTarget ==
  [][(SolveElbowUp \/ SolveElbowDown) =>
       LET shoulder == CapturedArm.shoulderPosition
           maxReach == 100 * (UpperArmLength + LowerArmLength)
           minReach == 100 * Abs(UpperArmLength - LowerArmLength)
           reached == distance(shoulder, mousePosition)
           ik == cachedIKRef'
           cx == ik.clampedTarget.x - shoulder.x
           cy == ik.clampedTarget.y - shoulder.y
           ux == (mousePosition.x - shoulder.x) \div 100
           uy == (mousePosition.y - shoulder.y) \div 100
           far == inverseKinematicsOf(OriginArm, [x |-> 100000, y |-> 0], TRUE)
           near == inverseKinematicsOf(OriginArm, [x |-> 500, y |-> 0], TRUE)
       IN  /\ DOMAIN ik = {"shoulderAngle", "elbowAngle", "clampedTarget"}
           /\ ik.shoulderAngle \in Int /\ ik.elbowAngle \in Int
           /\ (minReach <= reached /\ reached <= maxReach)
                => ik.clampedTarget = mousePosition
           /\ Abs(distance(shoulder, ik.clampedTarget)
                  - Min(Max(reached, minReach), maxReach)) <= PositionTolerance
           /\ (ux # 0 \/ uy # 0) =>
                /\ Abs(cx * uy - cy * ux)
                     <= PositionTolerance * Sqrt(ux * ux + uy * uy)
                /\ cx * ux + cy * uy > 0
           /\ Abs(far.clampedTarget.x - 28000) <= PositionTolerance
           /\ far.clampedTarget.y = 0
           /\ Abs(near.clampedTarget.x - 2000) <= PositionTolerance
           /\ near.clampedTarget.y = 0]_vars

\* A target 1000 px out, clamped to the outer limit with the arm stretched,
\* as cached after solving.
C27_Witness ==
  /\ mousePosition = TargetAt(CapturedArm, <<1000, 0>>)
  /\ cachedIKRef # Null
  /\ cachedIKRef.clampedTarget # mousePosition
  /\ Abs(cachedIKRef.clampedTarget.x - SHOULDER_POSITION.x - 28000)
       <= PositionTolerance
  /\ robotConfig.elbowAngle = 0

\* C29: for every target within [|len1 - len2|, len1 + len2] of the
\* shoulder and both elbow preferences, forwardKinematics of the angles
\* inverseKinematics returns puts the end effector on the target, up to the
\* resolution of the arithmetic.
C29_RoundTrip ==
  [][(SolveElbowUp \/ SolveElbowDown) =>
       LET reached == distance(CapturedArm.shoulderPosition, mousePosition)
           fk == forwardKinematicsOf(CapturedArm, robotConfig'.shoulderAngle,
                                     robotConfig'.elbowAngle)
       IN  (/\ 100 * Abs(UpperArmLength - LowerArmLength) <= reached
            /\ reached <= 100 * (UpperArmLength + LowerArmLength))
           => /\ Abs(fk.endEffectorPosition.x - mousePosition.x)
                   <= PositionTolerance
              /\ Abs(fk.endEffectorPosition.y - mousePosition.y)
                   <= PositionTolerance]_vars

\* The elbow-down solution for a target 250 px from the shoulder.
C29_Witness ==
  /\ mousePosition = TargetAt(CapturedArm, <<150, -200>>)
  /\ cachedIKRef # Null
  /\ cachedIKRef.clampedTarget = mousePosition
  /\ robotConfig.elbowAngle < 0
  /\ robotConfig.shoulderAngle = cachedIKRef.shoulderAngle

\* ------------------------------------------------------- normalizeAngle
\* The first loop of normalizeAngle: while (angle > Math.PI) angle -= 2 PI.
RECURSIVE NormalizeDown(_)
NormalizeDown(angle) ==
  IF angle > Pi THEN NormalizeDown(angle - 2 * Pi) ELSE angle

\* The second loop: while (angle < -Math.PI) angle += 2 PI.
RECURSIVE NormalizeUp(_)
NormalizeUp(angle) ==
  IF angle < -Pi THEN NormalizeUp(angle + 2 * Pi) ELSE angle

normalizeAngle(angle) == NormalizeUp(NormalizeDown(angle))

\* normalizeAngle applied to joint angles of up to MaxTurns turns either
\* way: every multiple of a quarter turn and its two neighbours for the
\* shoulder, plus and minus a half turn for the elbow.  robotConfig holds
\* the angles handed in, cachedIKRef the normalized angles.
MaxTurns == 3

AngleInputs ==
  {quarter * (Pi \div 2) + delta :
     quarter \in (-4 * MaxTurns)..(4 * MaxTurns), delta \in -1..1}

InitAngle ==
  \E shoulderAngle \in AngleInputs, elbowAngle \in {-Pi, Pi} :
    /\ recordingState = "idle"
    /\ currentTrajectory = EmptyTrajectory
    /\ undoHistory = <<>>
    /\ redoHistory = <<>>
    /\ playbackFrame = 0
    /\ robotConfig = [shoulderAngle |-> shoulderAngle, elbowAngle |-> elbowAngle]
    /\ mousePosition = Null
    /\ isFollowing = FALSE
    /\ hasStartedMoving = FALSE
    /\ lastMousePositionRef = Null
    /\ cachedIKRef = Null
    /\ startTimeRef = 0
    /\ lastRecordedConfigRef = Null
    /\ recordFrameRequest = FALSE
    /\ playbackStartTimeRef = 0
    /\ startFrameTimeRef = 0
    /\ startingFrameRef = 0
    /\ lastFrameIndexRef = -1
    /\ animateRequest = FALSE
    /\ originalTrajectory = Null
    /\ smoothingStrength = 0
    /\ showSmoothingSlider = FALSE
    /\ userSession = NewSession
    /\ appState = "recording"
    /\ framesCaptured = 0
    /\ seen = Snapshot(World)

Normalize ==
  /\ cachedIKRef' = [shoulderAngle |-> normalizeAngle(robotConfig.shoulderAngle),
                     elbowAngle |-> normalizeAngle(robotConfig.elbowAngle)]
  /\ UNCHANGED <<recordingState, currentTrajectory, undoHistory, redoHistory,
                 playbackFrame, robotConfig, mousePosition, isFollowing,
                 hasStartedMoving, lastMousePositionRef, startTimeRef,
                 lastRecordedConfigRef, recordFrameRequest,
                 playbackStartTimeRef, startFrameTimeRef, startingFrameRef,
                 lastFrameIndexRef, animateRequest, originalTrajectory,
                 smoothingStrength, showSmoothingSlider, userSession, appState,
                 framesCaptured, seen>>

NextAngle == Normalize

SpecAngle == InitAngle /\ [][NextAngle]_vars

\* C30: normalizeAngle returns a value that differs from its input by a
\* whole number of turns and lies in the half-open interval (-pi, pi]; an
\* input of -pi, or of an odd negative multiple of pi, is mapped to pi.
C30_NormalizeHalfOpen ==
  [][Normalize =>
       \A joint \in {"shoulderAngle", "elbowAngle"} :
         LET angle == robotConfig[joint]
             normalized == cachedIKRef'[joint]
         IN  /\ (normalized - angle) % (2 * Pi) = 0
             /\ -Pi < normalized
             /\ normalized <= Pi
             /\ (angle < 0 /\ angle % (2 * Pi) = Pi) => normalized = Pi]_vars

\* ------------------------------------------------- dragging and playback
\* The arm is grabbed at its end effector and dragged through the points of
\* DragPoints, with the controls that let a playback run while the arm is
\* still following the pointer: the pointer leaves the canvas, the motion
\* is reset and restored, scrubbed and played.  The clock stands still, so
\* every frame is stamped with the same millisecond.
NextDrag ==
  \/ FlushEffects
  \/ CaptureTick
  \/ PlaybackTick
  \/ \E position \in DragPoints : MouseMove(position)
  \/ MouseLeave
  \/ MouseDown(PointS)
  \/ Reset
  \/ Undo
  \/ \E frameIndex \in 0..(MaxFrames - 1) : Scrub(frameIndex)
  \/ Play

SpecDrag == Init /\ [][NextDrag]_vars

\* C28: when the drag controller applies a solution to the arm, it is the
\* elbow-up or the elbow-down solution for the mouse target, and one whose
\* combined change |shoulder - current| + |elbow - current| against the
\* arm's current joint angles is the smaller of the two: never the
\* elbow-up solution when the elbow-down one changes strictly less.
C28_MinimalChange ==
  Pending =>
    LET r == Snapshot(World)
        w == ResetOnIdle(ResetOnEmptyTrajectory(World, r, seen), r, seen)
        after == DirectManipulation(w, r, seen)
    IN  (/\ r.mousePosition # Null
         /\ r.isFollowing
         /\ after.robotConfig # w.robotConfig)
        => LET ikElbowUp == inverseKinematics(r.mousePosition, TRUE)
               ikElbowDown == inverseKinematics(r.mousePosition, FALSE)
               distUp == AngleDistance(ikElbowUp, r.robotConfig)
               distDown == AngleDistance(ikElbowDown, r.robotConfig)
           IN  /\ after.robotConfig \in {ikElbowUp, ikElbowDown}
               /\ AngleDistance(after.robotConfig, r.robotConfig)
                    = Min(distUp, distDown)


\* ------------------------------------------------------ angle interpolation
\* lerpAngle without the wrap: the plain difference of the normalized
\* angles.
plainDifference(a, b) == normalizeAngle(b) - normalizeAngle(a)

\* lerpAngle, "find shortest path": the difference of the normalized
\* angles, less a turn if it exceeds pi, plus a turn if it is below -pi.
shortestDifference(a, b) ==
  LET diff == normalizeAngle(b) - normalizeAngle(a)
      lowered == IF diff > Pi THEN diff - 2 * Pi ELSE diff
  IN  IF lowered < -Pi THEN lowered + 2 * Pi ELSE lowered

\* lerpAngle(a, b, t) with t in hundredths: a + diff * t on the normalized
\* a, rounded to the nearest 1e-4 rad.
lerpAngle(a, b, t) ==
  normalizeAngle(a) + RoundDiv(shortestDifference(a, b) * t, 100)

\* The interpolation is applied to pairs of joint angles: every angle of
\* AngleInputs and the pair 3.0, -3.0, at the fractions of LerpFractions.
\* robotConfig holds a (shoulder) and b (elbow), cachedIKRef the result.
LerpAngles == AngleInputs \cup {30000, -30000}
LerpFractions == {0, 25, 50, 75, 100}

InitLerp ==
  \E a \in LerpAngles, b \in LerpAngles :
    /\ recordingState = "idle"
    /\ currentTrajectory = EmptyTrajectory
    /\ undoHistory = <<>>
    /\ redoHistory = <<>>
    /\ playbackFrame = 0
    /\ robotConfig = [shoulderAngle |-> a, elbowAngle |-> b]
    /\ mousePosition = Null
    /\ isFollowing = FALSE
    /\ hasStartedMoving = FALSE
    /\ lastMousePositionRef = Null
    /\ cachedIKRef = Null
    /\ startTimeRef = 0
    /\ lastRecordedConfigRef = Null
    /\ recordFrameRequest = FALSE
    /\ playbackStartTimeRef = 0
    /\ startFrameTimeRef = 0
    /\ startingFrameRef = 0
    /\ lastFrameIndexRef = -1
    /\ animateRequest = FALSE
    /\ originalTrajectory = Null
    /\ smoothingStrength = 0
    /\ showSmoothingSlider = FALSE
    /\ userSession = NewSession
    /\ appState = "recording"
    /\ framesCaptured = 0
    /\ seen = Snapshot(World)

Lerp(t) ==
  /\ cachedIKRef' =
       [shoulderAngle |->
          lerpAngle(robotConfig.shoulderAngle, robotConfig.elbowAngle, t),
        elbowAngle |-> robotConfig.elbowAngle]
  /\ UNCHANGED <<recordingState, currentTrajectory, undoHistory, redoHistory,
                 playbackFrame, robotConfig, mousePosition, isFollowing,
                 hasStartedMoving, lastMousePositionRef, startTimeRef,
                 lastRecordedConfigRef, recordFrameRequest,
                 playbackStartTimeRef, startFrameTimeRef, startingFrameRef,
                 lastFrameIndexRef, animateRequest, originalTrajectory,
                 smoothingStrength, showSmoothingSlider, userSession, appState,
                 framesCaptured, seen>>

NextLerp == \E t \in LerpFractions : Lerp(t)

SpecLerp == InitLerp /\ [][NextLerp]_vars

\* C31: lerpAngle interpolates along the shortest signed difference: the
\* difference it scales by t is a whole number of turns away from b - a and
\* at most pi in absolute value, the result is the normalized a plus t
\* times that difference, and lerpAngle(3.0, -3.0, 0.5) lies at pi (the
\* short way round), not at 0.
C31_ShortestPath ==
  [][\A t \in LerpFractions :
       Lerp(t) =>
         LET a == robotConfig.shoulderAngle
             b == robotConfig.elbowAngle
             diff == shortestDifference(a, b)
             result == cachedIKRef'.shoulderAngle
         IN  /\ (diff - (b - a)) % (2 * Pi) = 0
             /\ Abs(diff) <= Pi
             /\ Abs(100 * (result - normalizeAngle(a)) - diff * t) <= 50
             /\ (a = 30000 /\ b = -30000 /\ t = 50)
                  => (Abs(result - Pi) <= 1 /\ Abs(result) > Pi \div 2)]_vars

\* The pair 3.0, -3.0 has been interpolated half way.
C31_Witness ==
  /\ robotConfig = [shoulderAngle |-> 30000, elbowAngle |-> -30000]
  /\ cachedIKRef # Null
  /\ cachedIKRef.shoulderAngle = lerpAngle(30000, -30000, 50)
  /\ Abs(plainDifference(30000, -30000)) > Pi


\* ------------------------------------------------- release at the target
\* C32: while the arm follows the mouse, drag-follow is released, and a
\* recording has become idle, as soon as the end effector is within the
\* target radius: once the effects have settled, no state has the pointer
\* on the canvas, the end effector in the target zone and the arm still
\* following or still being recorded.
C32_ReleasedOnEntry ==
  (Quiescent /\ mousePosition # Null /\ ArmInTargetZone(robotConfig))
    => (~isFollowing /\ recordingState # "recording")


\* -------------------------------------------------- recording segments
\* C33: on every transition out of recording seen by the effects the capture
\* time origin and the last-recorded-angle cache are reset and the loop is
\* stopped; when the next segment starts, its origin is computed afresh
\* from the trajectory of that moment (the elapsed time reads that
\* trajectory's last timestamp) and nothing counts as recorded, so its
\* first capture tick takes the appending branch with the arm's angles
\* whatever the previous segment recorded.
C33_SegmentStartsClean ==
  [][/\ (seen.recordingState = "recording" /\ seen'.recordingState # "recording")
          => /\ startTimeRef' = 0
             /\ lastRecordedConfigRef' = Null
             /\ ~recordFrameRequest'
     /\ (seen.recordingState # "recording" /\ seen'.recordingState = "recording")
          => /\ recordFrameRequest'
             /\ lastRecordedConfigRef' = Null
             /\ RecordingElapsed' = LastTimestamp(seen'.currentTrajectory)
     /\ (CaptureTick /\ lastRecordedConfigRef = Null /\ seen.currentTrajectory # Null)
          => /\ framesCaptured' = framesCaptured + 1
             /\ lastRecordedConfigRef' \in {seen.robotConfig, Null}]_vars

\* A second segment is being recorded, and its first tick has appended the
\* very angles the previous segment recorded last.
C33_Witness ==
  /\ recordingState = "recording"
  /\ recordFrameRequest
  /\ lastRecordedConfigRef # Null
  /\ framesCaptured >= 2
  /\ \E i \in 1..(FrameCount(currentTrajectory) - 1) :
       LET frames == currentTrajectory.frames
       IN  /\ frames[i].shoulderAngle = frames[i + 1].shoulderAngle
           /\ frames[i].elbowAngle = frames[i + 1].elbowAngle
           /\ lastRecordedConfigRef.shoulderAngle = frames[i + 1].shoulderAngle
           /\ lastRecordedConfigRef.elbowAngle = frames[i + 1].elbowAngle


\* ------------------------------------------------------ redrawing a motion
\* A motion has been drawn from the initial pose through mid-canvas to the
\* target and the pointer has left the canvas; the frames captured from
\* here on are counted from zero.  The user scrubs, redraws from a frame,
\* grabs the arm again and draws on, and undoes.
DrawnTrajectory ==
  [frames |-> <<MotionFrame(0, inverseKinematics(PointS, TRUE)),
                MotionFrame(1, inverseKinematics(PointA, TRUE)),
                MotionFrame(2, inverseKinematics(PointT, TRUE))>>,
   completed |-> TRUE,
   totalTimeMs |-> 0]

InitRedraw ==
  /\ recordingState = "idle"
  /\ currentTrajectory = DrawnTrajectory
  /\ undoHistory = <<>>
  /\ redoHistory = <<>>
  /\ playbackFrame = Len(DrawnTrajectory.frames) - 1
  /\ robotConfig = inverseKinematics(PointT, TRUE)
  /\ mousePosition = Null
  /\ isFollowing = FALSE
  /\ hasStartedMoving = FALSE
  /\ lastMousePositionRef = Null
  /\ cachedIKRef = Null
  /\ startTimeRef = 0
  /\ lastRecordedConfigRef = Null
  /\ recordFrameRequest = FALSE
  /\ playbackStartTimeRef = 0
  /\ startFrameTimeRef = 0
  /\ startingFrameRef = 0
  /\ lastFrameIndexRef = -1
  /\ animateRequest = FALSE
  /\ originalTrajectory = Null
  /\ smoothingStrength = 0
  /\ showSmoothingSlider = FALSE
  /\ userSession = NewSession
  /\ appState = "recording"
  /\ framesCaptured = 0
  /\ seen = Snapshot(World)

NextRedraw ==
  \/ FlushEffects
  \/ CaptureTick
  \/ \E position \in MousePoints : MouseMove(position)
  \/ MouseLeave
  \/ \E clickPos \in MousePoints : MouseDown(clickPos)
  \/ \E frameIndex \in 0..(MaxFrames - 1) : Scrub(frameIndex)
  \/ Redraw
  \/ Undo
  \/ Redo

SpecRedraw == InitRedraw /\ [][NextRedraw]_vars

handleMouseDown(clickPos) ==
  /\ Quiescent
  /\ WithinDistance(clickPos,
                    forwardKinematics(seen.robotConfig).endEffectorPosition,
                    HitRadius)
  /\ Discrete([World EXCEPT !.mousePosition = clickPos, !.isFollowing = TRUE])

\* Timeline.handleScrub (and the touch handlers, which compute the same)
\* as the timeline canvas calls it: during playback the event is dropped,
\* otherwise the frame index is clamped and published.
handleScrub(frameIndex) ==
  /\ OnControls
  /\ hasFrames
  /\ IF recordingState = "playing"
     THEN UNCHANGED vars
     ELSE Discrete([World EXCEPT
            !.playbackFrame =
               Max(0, Min(FrameCount(currentTrajectory) - 1, frameIndex))])

\* The recorded motion of InitReplay is played, paused and scrubbed, and
\* the user presses the mouse on the arm and moves it at any time.
NextHold ==
  \/ FlushEffects
  \/ PlaybackTick
  \/ Advance
  \/ Play
  \/ Pause
  \/ \E frameIndex \in 0..(Len(ReplayTrajectory.frames) - 1) : handleScrub(frameIndex)
  \/ \E clickPos \in MousePoints : handleMouseDown(clickPos)
  \/ \E position \in MousePoints : MouseMove(position)
  \/ MouseLeave

SpecHold == InitReplay /\ [][NextHold]_vars

\* C35: while the recording state is paused or playing, the drag
\* controller does not change the arm's joint angles.
C35_NoDragWhilePausedOrPlaying ==
  Pending =>
    LET r == Snapshot(World)
        w == ResetOnIdle(ResetOnEmptyTrajectory(World, r, seen), r, seen)
        after == DirectManipulation(w, r, seen)
    IN  r.recordingState \in {"paused", "playing"}
          => after.robotConfig = w.robotConfig


C37_NoAppendLost ==
  [][/\ (CaptureTick /\ framesCaptured' = framesCaptured + 1)
          => /\ currentTrajectory' # Null
             /\ FrameCount(currentTrajectory') > 0
             /\ currentTrajectory'.frames[FrameCount(currentTrajectory')]
                  = MotionFrame(RecordingElapsed, seen.robotConfig)
     /\ (currentTrajectory # Null /\ ~ExplicitEdit)
          => /\ currentTrajectory' # Null
             /\ FrameCount(currentTrajectory') >= FrameCount(currentTrajectory)
             /\ SubSeq(currentTrajectory'.frames, 1, FrameCount(currentTrajectory))
                  = currentTrajectory.frames]_vars


\* ---------------------------------------------------------------------
\* completed trajectories
\* ---------------------------------------------------------------------

\* C38: in every reachable state, a current trajectory with
\* completed = true has at least one frame, and the end effector of its
\* last frame lies within the target radius of the target.
C38_CompletedEndsInZone ==
  (currentTrajectory # Null /\ currentTrajectory.completed)
    => /\ FrameCount(currentTrajectory) > 0
       /\ isInTargetZone(
            currentTrajectory.frames[FrameCount(currentTrajectory)].endEffectorPosition,
            TargetPosition, TargetRadius)


\* ---------------------------------------------------------------------
\* completing a motion
\* ---------------------------------------------------------------------

\* completeCurrentMotion leaving the undo and redo stacks as they are.
completeCurrentMotionKeepsHistory(w) ==
  IF w.currentTrajectory = Null \/ ~w.currentTrajectory.completed
  THEN w
  ELSE LET nextIndex == w.userSession.currentPromptIndex + 1
           done == resetRobotPosition(
                     [w EXCEPT !.userSession.completedMotions =
                                  Append(@, w.currentTrajectory),
                               !.currentTrajectory = Null,
                               !.recordingState = "idle"])
       IN  IF nextIndex >= Len(w.userSession.promptOrder)
           THEN [done EXCEPT !.appState = "completed"]
           ELSE [done EXCEPT !.userSession.currentPromptIndex = nextIndex]

\* AppContext.nextPrompt, called with the session of the render whose
\* handler runs: the next prompt, or the end screen after the last one.
nextPrompt(w, session) ==
  LET nextIndex == session.currentPromptIndex + 1
  IN  IF nextIndex >= Len(session.promptOrder)
      THEN [w EXCEPT !.appState = "completed"]
      ELSE [w EXCEPT !.userSession.currentPromptIndex = nextIndex]

\* AppContext.completeCurrentMotion.  The session exists from the splash
\* screen on.
completeCurrentMotion(w) ==
  IF w.currentTrajectory = Null \/ ~w.currentTrajectory.completed
  THEN w
  ELSE nextPrompt(
         resetRobotPosition(
           [w EXCEPT !.userSession.completedMotions =
                        Append(@, w.currentTrajectory),
                     !.currentTrajectory = Null,
                     !.undoHistory = <<>>,
                     !.redoHistory = <<>>,
                     !.recordingState = "idle"]),
         w.userSession)

\* The Complete button is enabled.
canComplete == currentTrajectory # Null /\ currentTrajectory.completed

\* Controls.handleComplete, a click on the enabled Complete button with or
\* without the Ctrl key.  hasPlayedAnimation is set by handlePlayback only,
\* and the session below has no playback: without Ctrl the click opens the
\* playback warning, which changes none of the state kept here.
handleComplete(ctrlPressed) ==
  /\ OnControls
  /\ canComplete /\ recordingState # "playing"
  /\ IF ~ctrlPressed
     THEN UNCHANGED vars
     ELSE Discrete(completeCurrentMotion(World))

\* A session: the user draws, resets, undoes, redoes and completes motions
\* until the prompts are used up and the end screen replaces the canvas
\* and the controls.
Mounted == appState = "recording"

NextSession ==
  \/ FlushEffects
  \/ Mounted /\ CaptureTick
  \/ Mounted /\ \E position \in DirectPoints : MouseMove(position)
  \/ Mounted /\ MouseLeave
  \/ Mounted /\ \E clickPos \in DirectPoints : MouseDown(clickPos)
  \/ Mounted /\ Reset
  \/ Mounted /\ Undo
  \/ Mounted /\ Redo
  \/ Mounted /\ \E ctrlPressed \in BOOLEAN : handleComplete(ctrlPressed)

SpecSession == Init /\ [][NextSession]_vars

\* C39: completeCurrentMotion changes nothing unless the current
\* trajectory exists and is completed; when it takes effect it appends
\* that trajectory to the session's completed motions, empties the undo
\* and the redo stack, leaves the state idle and moves to the next prompt
\* (after the last prompt, to the end screen).  Every completed motion
\* has completed = true, and there are never more completed motions than
\* prompts.
C39_CompleteCurrentMotion ==
  /\ [](/\ ~canComplete => completeCurrentMotion(World) = World
        /\ \A index \in 1..Len(userSession.completedMotions) :
             userSession.completedMotions[index].completed
        /\ Len(userSession.completedMotions) <= Len(userSession.promptOrder)
        /\ userSession.currentPromptIndex < Len(userSession.promptOrder))
  /\ [][(userSession' # userSession \/ appState' # appState)
          => /\ canComplete
             /\ userSession'.completedMotions =
                  Append(userSession.completedMotions, currentTrajectory)
             /\ undoHistory' = <<>>
             /\ redoHistory' = <<>>
             /\ recordingState' = "idle"
             /\ IF userSession.currentPromptIndex + 1 < Len(userSession.promptOrder)
                THEN /\ userSession'.currentPromptIndex =
                          userSession.currentPromptIndex + 1
                     /\ appState' = "recording"
                ELSE /\ userSession'.currentPromptIndex =
                          userSession.currentPromptIndex
                     /\ appState' = "completed"]_vars

\* Every prompt has been completed, the first motion with recorded frames
\* and the last one after a reset had left an entry in the undo stack.
C39_Witness ==
  /\ appState = "completed"
  /\ Len(userSession.completedMotions) = Len(userSession.promptOrder)
  /\ FrameCount(userSession.completedMotions[1]) > 0
  /\ undoHistory = <<>>
  /\ redoHistory = <<>>
  /\ recordingState = "idle"


\* ---------------------------------------------------------------------
\* frame indices of playback
\* ---------------------------------------------------------------------

\* A recorded motion is played, paused and scrubbed, and replaced by
\* shorter and longer ones: truncated by a redraw, emptied by a reset,
\* restored by undo and redo.
NextStale ==
  \/ FlushEffects
  \/ PlaybackTick
  \/ Advance
  \/ Play
  \/ Pause
  \/ \E frameIndex \in 0..(Len(ReplayTrajectory.frames) - 1) : Scrub(frameIndex)
  \/ Redraw
  \/ Reset
  \/ Undo
  \/ Redo

SpecStale == InitReplay /\ [][NextStale]_vars

\* The valid frame indices of a trajectory.
FrameIndices(trajectory) == 0..(FrameCount(trajectory) - 1)

=============================================================================
